---- MODULE Spec2Model ----
(***************************************************************************)
(* Sentinel: the crash interceptor (a vectored exception handler) and the  *)
(* console logger it reports through.                                      *)
(*                                                                         *)
(*   src/src/Sentinel/Bedrock/CrashInterceptor.cpp  Initialize,            *)
(*                                                  HandlerRoutine         *)
(*   src/src/Sentinel/Utils/Logger.cpp              Initialize, LogInfo,   *)
(*                                                  LogError               *)
(*                                                                         *)
(* A thread is a call stack of frames.  The host (Windows) keeps the list  *)
(* of vectored handlers and walks it on the faulting thread.  64-bit       *)
(* values (ULONG_PTR, PVOID, uintptr_t) are four 16-bit limbs, most        *)
(* significant first; a DWORD is two.  A pointer is <<>> (null) or <<x>>.  *)
(***************************************************************************)
EXTENDS Integers, Sequences, FiniteSets, TLC

----------------------------------------------------------------------------
(* Bounds of the exploration *)

NumThreads == 2       \* threads of Spec
MaxCalls == 2         \* operations the threads of Spec start
MaxCallsWide == 3     \* operations the thread of SpecWide starts
MaxCallsNested == 2   \* operations the threads of SpecNested start
MaxCallsFormat == 2   \* operations the thread of SpecFormat starts
MaxCallsHost == 2   \* LogInfo and LogError calls the threads of SpecHost make
MaxCallsReports == 2    \* operations started in SpecReports, the registration included
MaxCallsFair == 3   \* LogInfo and LogError calls the threads of SpecFair make
MaxCallsSanitize == 2   \* operations started in SpecSanitize, the registration included
MaxCallsConcurrent == 3   \* operations started in SpecConcurrent, the registration included

Threads == 1..NumThreads

----------------------------------------------------------------------------
(* 64-bit unsigned values as limbs *)

U64(w3, w2, w1, w0) == <<w3, w2, w1, w0>>
Zero64 == U64(0, 0, 0, 0)

RECURSIVE BitAndN(_, _, _)
BitAndN(a, b, n) ==
    IF n = 0 THEN 0
    ELSE (IF a % 2 = 1 /\ b % 2 = 1 THEN 1 ELSE 0)
         + 2 * BitAndN(a \div 2, b \div 2, n - 1)

(* x & y *)
And64(x, y) == [i \in 1..4 |-> BitAndN(x[i], y[i], 16)]
(* ~x *)
Not64(x) == [i \in 1..4 |-> 65535 - x[i]]
(* x <= y, unsigned *)
Leq64(x, y) ==
    \/ x = y
    \/ \E i \in 1..4 : x[i] < y[i] /\ \A j \in 1..(i - 1) : x[j] = y[j]

----------------------------------------------------------------------------
(* CrashInterceptor.cpp: constants *)

STATUS_GUARD_PAGE_VIOLATION == <<32768, 1>>   \* 0x80000001
STATUS_ACCESS_VIOLATION == <<49152, 5>>       \* 0xC0000005
PAGE_OFFSET_MASK_BYTE == U64(0, 0, 0, 255)
PAGE_OFFSET_MASK == U64(0, 0, 0, 4095)
LogBufferSize == 256

EXCEPTION_CONTINUE_SEARCH == "EXCEPTION_CONTINUE_SEARCH"
EXCEPTION_CONTINUE_EXECUTION == "EXCEPTION_CONTINUE_EXECUTION"

(* a pointer to a structure: <<>> is nullptr, <<x>> points to x; what a   *)
(* read through nullptr would find is not defined by anything              *)
NullPtr == <<>>
IsNull(p) == p = <<>>
Undefined ==
    [ExceptionRecord |-> NullPtr, ExceptionCode |-> <<0, 0>>, NumberParameters |-> 0,
     ExceptionInformation |-> [i \in {0, 1} |-> <<0, 0, 0, 0>>]]
Deref(p) == IF IsNull(p) THEN Undefined ELSE p[1]

----------------------------------------------------------------------------
(* printf's %016llX *)

HexDigitsLower == <<"0", "1", "2", "3", "4", "5", "6", "7",
                    "8", "9", "a", "b", "c", "d", "e", "f">>
HexDigits == <<"0", "1", "2", "3", "4", "5", "6", "7",
               "8", "9", "A", "B", "C", "D", "E", "F">>

(* the 16 nibbles of a 64-bit value, most significant first *)
Nibbles(x) ==
    [k \in 1..16 |->
        LET limb == x[((k - 1) \div 4) + 1]
            pos  == (k - 1) % 4
        IN  IF pos = 0 THEN (limb \div 4096) % 16
            ELSE IF pos = 1 THEN (limb \div 256) % 16
            ELSE IF pos = 2 THEN (limb \div 16) % 16
            ELSE limb % 16]

RECURSIVE StripZeros(_)
StripZeros(ns) ==
    IF Len(ns) > 1 /\ Head(ns) = 0 THEN StripZeros(Tail(ns)) ELSE ns

RECURSIVE DigitString(_)
DigitString(ns) ==
    IF ns = <<>> THEN "" ELSE HexDigits[Head(ns) + 1] \o DigitString(Tail(ns))

RECURSIVE ZeroPad(_, _)
ZeroPad(s, width) == IF Len(s) >= width THEN s ELSE ZeroPad("0" \o s, width)

FormatHexUnpadded(x) == DigitString(StripZeros(Nibbles(x)))
FormatHex016(x) == ZeroPad(DigitString(StripZeros(Nibbles(x))), 16)

(* sprintf_s(logBuffer, sizeof(logBuffer), ...): the text and its length,  *)
(* or a failure when it does not fit the buffer with its terminator        *)
Sprintf_s(size, text) ==
    IF Len(text) < size
    THEN [result |-> Len(text), logBuffer |-> text]
    ELSE [result |-> 0 - 1, logBuffer |-> ""]

----------------------------------------------------------------------------
(* CrashInterceptor::HandlerRoutine, the computation of one invocation.    *)
(* An EXCEPTION_RECORD is [ExceptionCode, NumberParameters,                *)
(* ExceptionInformation], the last an array indexed from 0 whose entries   *)
(* at and beyond NumberParameters hold whatever the memory held.           *)

(* the guard-page branch's extraction of the faulting address *)
GuardPageExtractUnchecked(rec) ==
    [faultingAddress |-> rec.ExceptionInformation[1], infoReads |-> {1}]
GuardPageExtractFirst(rec) ==
    IF rec.NumberParameters >= 2
    THEN [faultingAddress |-> rec.ExceptionInformation[0], infoReads |-> {0}]
    ELSE [faultingAddress |-> Zero64, infoReads |-> {}]
GuardPageExtract(rec) ==
    IF rec.NumberParameters >= 2
    THEN [faultingAddress |-> rec.ExceptionInformation[1], infoReads |-> {1}]
    ELSE [faultingAddress |-> Zero64, infoReads |-> {}]

(* the access-violation branch's extraction of access type and address *)
AccessViolationExtract(rec) ==
    IF rec.NumberParameters >= 2
    THEN [accessType      |-> rec.ExceptionInformation[0],
          faultingAddress |-> rec.ExceptionInformation[1],
          infoReads       |-> {0, 1}]
    ELSE [accessType |-> Zero64, faultingAddress |-> Zero64, infoReads |-> {}]

(* reinterpret_cast<uintptr_t>(faultingAddress) & ~PAGE_OFFSET_MASK *)
SanitizeAddressRaw(faultingAddress) == faultingAddress
SanitizeAddress32(faultingAddress) ==
    <<0, 0, faultingAddress[3], faultingAddress[4] - (faultingAddress[4] % 4096)>>
SanitizeAddress(faultingAddress) == And64(faultingAddress, Not64(PAGE_OFFSET_MASK))

(* switch (accessType) *)
AccessTypeStr(accessType) ==
    CASE accessType = U64(0, 0, 0, 0) -> "Read from"
      [] accessType = U64(0, 0, 0, 1) -> "Write to"
      [] accessType = U64(0, 0, 0, 8) -> "DEP violation at"
      [] OTHER -> "Access to"

(* what a branch hands to LogError: the buffer if formatting succeeded,    *)
(* the fixed fallback otherwise                                            *)
FormattedAlways(f, fallback) == f.logBuffer
FormattedOrFallback(f, fallback) == IF f.result > 0 THEN f.logBuffer ELSE fallback

GuardPageFallback == "[CRITICAL] Guard Page Violation Detected (formatting error)!"
AccessViolationFallback == "[CRITICAL] Access Violation (formatting error)!"

GuardPageMessage(sanitizedAddress) ==
    FormattedOrFallback(
        Sprintf_s(LogBufferSize,
                  "[CRITICAL] Guard Page Violation Detected at 0x"
                  \o FormatHex016(sanitizedAddress) \o " (page-aligned)!"),
        GuardPageFallback)

AccessViolationMessage(accessTypeStr, sanitizedAddress) ==
    FormattedOrFallback(
        Sprintf_s(LogBufferSize,
                  "[CRITICAL] Access Violation! " \o accessTypeStr \o " address 0x"
                  \o FormatHex016(sanitizedAddress) \o " (page-aligned)"),
        AccessViolationFallback)

(* the LogError calls of a branch: one, with the message *)
GuardPageSilent(sanitizedAddress) == <<>>
GuardPageErrors(sanitizedAddress) == <<GuardPageMessage(sanitizedAddress)>>
AccessViolationErrors(accessTypeStr, sanitizedAddress) ==
    <<AccessViolationMessage(accessTypeStr, sanitizedAddress)>>

(* the disposition a branch returns *)
GuardPageDispositionResume == EXCEPTION_CONTINUE_EXECUTION
GuardPageDisposition == EXCEPTION_CONTINUE_SEARCH
AccessViolationDisposition == EXCEPTION_CONTINUE_SEARCH
OtherDisposition == EXCEPTION_CONTINUE_SEARCH
MalformedDisposition == EXCEPTION_CONTINUE_SEARCH

(* the validation of the descriptor *)
MalformedInfoOnly(ExceptionInfo) == IsNull(ExceptionInfo)
Malformed(ExceptionInfo) ==
    IsNull(ExceptionInfo) \/ IsNull(Deref(ExceptionInfo).ExceptionRecord)

IsGuardPageBySeverity(exceptionCode) == exceptionCode[1] = STATUS_GUARD_PAGE_VIOLATION[1]
IsGuardPage(exceptionCode) == exceptionCode = STATUS_GUARD_PAGE_VIOLATION
IsAccessViolationOrOther(exceptionCode) == TRUE
IsAccessViolation(exceptionCode) == exceptionCode = STATUS_ACCESS_VIOLATION

(* One invocation: the disposition returned, the messages handed to        *)
(* LogError before returning, and what the invocation read: the fields of  *)
(* the record and the indexes of ExceptionInformation.                     *)
HandlerRoutine(ExceptionInfo) ==
    IF Malformed(ExceptionInfo)
    THEN [value |-> MalformedDisposition, errors |-> <<>>,
          reads |-> {}, infoReads |-> {}, sanitizedAddress |-> Zero64]
    ELSE
      LET rec == Deref(Deref(ExceptionInfo).ExceptionRecord)
          exceptionCode == rec.ExceptionCode
      IN
        IF IsGuardPage(exceptionCode)
        THEN LET x == GuardPageExtract(rec)
                 sanitizedAddress == SanitizeAddress(x.faultingAddress)
             IN  [value |-> GuardPageDisposition,
                  errors |-> GuardPageErrors(sanitizedAddress),
                  reads |-> {"ExceptionCode", "NumberParameters"},
                  infoReads |-> x.infoReads,
                  sanitizedAddress |-> sanitizedAddress]
        ELSE IF IsAccessViolation(exceptionCode)
        THEN LET x == AccessViolationExtract(rec)
                 sanitizedAddress == SanitizeAddress(x.faultingAddress)
             IN  [value |-> AccessViolationDisposition,
                  errors |-> AccessViolationErrors(AccessTypeStr(x.accessType),
                                                   sanitizedAddress),
                  reads |-> {"ExceptionCode", "NumberParameters"},
                  infoReads |-> x.infoReads,
                  sanitizedAddress |-> sanitizedAddress]
        ELSE [value |-> OtherDisposition, errors |-> <<>>,
              reads |-> {"ExceptionCode"}, infoReads |-> {},
              sanitizedAddress |-> Zero64]

----------------------------------------------------------------------------
(* Inputs *)

STATUS_BREAKPOINT == <<32768, 3>>                 \* 0x80000003
STATUS_INTEGER_DIVIDE_BY_ZERO == <<49152, 148>>   \* 0xC0000094

Addr_1234 == U64(0, 32758, 40960, 4660)     \* 0x00007FF6A0001234
Addr_1FFF == U64(0, 32758, 40960, 8191)     \* 0x00007FF6A0001FFF
Addr_1000 == U64(0, 32758, 40960, 4096)     \* 0x00007FF6A0001000
Addr_Ones == U64(65535, 65535, 65535, 65535)

Record(code, n, kind, addr) ==
    [ExceptionCode |-> code, NumberParameters |-> n,
     ExceptionInformation |-> [i \in {0, 1} |-> IF i = 0 THEN kind ELSE addr]]

(* PEXCEPTION_POINTERS: null, or pointing to a null or a present record *)
Pointers(rec) == <<[ExceptionRecord |-> <<rec>>, ContextRecord |-> <<"CONTEXT">>]>>
NullInfo == NullPtr
NullRecordInfo == <<[ExceptionRecord |-> NullPtr, ContextRecord |-> <<"CONTEXT">>]>>

AllCodes == {STATUS_GUARD_PAGE_VIOLATION, STATUS_ACCESS_VIOLATION,
             STATUS_BREAKPOINT, STATUS_INTEGER_DIVIDE_BY_ZERO}
AllCounts == 0..3
AllKinds == {U64(0, 0, 0, 0), U64(0, 0, 0, 1), U64(0, 0, 0, 8),
             U64(0, 0, 0, 2), U64(0, 0, 0, 255)}
AllAddresses == {Zero64, Addr_1000, Addr_1234, Addr_1FFF, Addr_Ones}


(* the records raised: an access violation with every count, kind and      *)
(* address; a guard-page violation, whose branch reads no kind, with two   *)
(* kinds; the unrecognized codes, which read no parameter, with two pairs  *)
AllRecords ==
    {Record(STATUS_ACCESS_VIOLATION, n, k, a) :
        n \in AllCounts, k \in AllKinds, a \in AllAddresses}
    \cup {Record(STATUS_GUARD_PAGE_VIOLATION, n, k, a) :
        n \in AllCounts, k \in {Zero64, Addr_Ones}, a \in AllAddresses}
    \cup {Record(c, n, k, a) :
        c \in AllCodes \ {STATUS_GUARD_PAGE_VIOLATION, STATUS_ACCESS_VIOLATION},
        n \in AllCounts, k \in {U64(0, 0, 0, 1)}, a \in {Zero64, Addr_1234}}

(* every descriptor: what SpecWide raises on one thread *)
AllInfos == {NullInfo, NullRecordInfo} \cup {Pointers(r) : r \in AllRecords}

(* addresses around the page boundaries, in the low and the high half of   *)
(* the address space, and the recognized exceptions at each of them        *)
SanitizeAddresses ==
    {U64(w3, 32758, w1, w0) :
        w3 \in {0, 65535}, w1 \in {0, 65535},
        w0 \in {0, 1, 4095, 4096, 4097, 8191, 8192, 61440, 65535}}
SanitizeInfos ==
    {Pointers(Record(code, 2, U64(0, 0, 0, 1), a)) :
        code \in {STATUS_GUARD_PAGE_VIOLATION, STATUS_ACCESS_VIOLATION},
        a \in SanitizeAddresses}

(* a few descriptors: what Spec raises on concurrent threads *)
SomeInfos ==
    {NullInfo,
     Pointers(Record(STATUS_BREAKPOINT, 0, U64(0, 0, 0, 1), Zero64)),
     Pointers(Record(STATUS_GUARD_PAGE_VIOLATION, 2, Zero64, Addr_1234)),
     Pointers(Record(STATUS_ACCESS_VIOLATION, 2, U64(0, 0, 0, 1), Zero64))}

(* what a thread of the application logs (main.cpp's threadFunc) *)
AppMessage(t) == "Thread " \o ToString(t) \o " - Message 0"

----------------------------------------------------------------------------
(* State *)

VARIABLES
    stack,                   \* per thread: the call stack, innermost frame last
    ret,                     \* per thread: what the last returned call returned
    calls,                   \* operations started by the threads so far
    vehList,                 \* the host's list of vectored handlers, first called first
    consoleMutex_,           \* Logger::consoleMutex_: 0, or the thread that owns it
    consoleHandle_,          \* Logger::consoleHandle_
    errorConsoleHandle_,     \* Logger::errorConsoleHandle_
    defaultAttributes_,      \* Logger::defaultAttributes_
    errorDefaultAttributes_, \* Logger::errorDefaultAttributes_
    initialized_,            \* Logger::initialized_
    stdHandles,              \* the host: what GetStdHandle returns
    consoleAttr,             \* the host: the console screen buffer's text attributes
    output,                  \* the insertions into std::cout and std::cerr, in order
    logCalls                 \* every LogInfo/LogError call made, in call order

loggerVars == <<consoleMutex_, consoleHandle_, errorConsoleHandle_,
                defaultAttributes_, errorDefaultAttributes_, initialized_>>
hostVars == <<stdHandles, consoleAttr>>
streamVars == <<output>>
vars == <<stack, ret, calls, vehList, loggerVars, hostVars, streamVars, logCalls>>

(* console text attributes, as sets of the FOREGROUND_ flags *)
DEFAULT_CONSOLE_ATTRIBUTES == {"FOREGROUND_RED", "FOREGROUND_GREEN", "FOREGROUND_BLUE"}
InfoColor == {"FOREGROUND_GREEN", "FOREGROUND_INTENSITY"}
ErrorColor == {"FOREGROUND_RED", "FOREGROUND_INTENSITY"}
NoAttributes == {}

(* the attributes the console has when the process starts *)
StartAttributes == {"FOREGROUND_GREEN", "FOREGROUND_BLUE"}

(* the standard handles a process can start with: a console screen buffer, *)
(* a file or pipe (redirected), or none                                    *)
StdHandleConfigs ==
    {[out |-> "CONOUT$", err |-> "CONOUT$"],
     [out |-> "FILE", err |-> "nullptr"],
     [out |-> "INVALID_HANDLE_VALUE", err |-> "CONOUT$"]}

NoReturn == [fn |-> "none", value |-> "none", reads |-> {}, infoReads |-> {}, logs |-> 0]

Init ==
    /\ stack = [t \in Threads |-> <<>>]
    /\ ret = [t \in Threads |-> NoReturn]
    /\ calls = 0
    /\ vehList = <<>>
    /\ consoleMutex_ = 0
    /\ consoleHandle_ = "nullptr"
    /\ errorConsoleHandle_ = "nullptr"
    /\ defaultAttributes_ = NoAttributes
    /\ errorDefaultAttributes_ = NoAttributes
    /\ initialized_ = FALSE
    /\ stdHandles \in StdHandleConfigs
    /\ consoleAttr = StartAttributes
    /\ output = <<>>
    /\ logCalls = <<>>

----------------------------------------------------------------------------
(* Call stacks *)

Idle(t) == stack[t] = <<>>
Top(t) == stack[t][Len(stack[t])]
At(t, fn, pc) == ~Idle(t) /\ Top(t).fn = fn /\ Top(t).pc = pc
Below(t) == SubSeq(stack[t], 1, Len(stack[t]) - 1)

LogFrame(sev, message, call) ==
    [fn |-> "Log", pc |-> "lock", sev |-> sev, message |-> message, call |-> call,
     attributeCalls |-> 0]

(* a call of LogInfo (sev "INFO") or LogError (sev "ERROR") by thread t *)
LogCall(t, sev, message) == [thread |-> t, sev |-> sev, message |-> message]

----------------------------------------------------------------------------
(* Logger.cpp *)

IsConsoleAvailableNonNull(handle) == handle # "nullptr"
IsConsoleAvailable(handle) == handle # "INVALID_HANDLE_VALUE" /\ handle # "nullptr"

(* the host's console API: both succeed on a console screen buffer only *)
GetConsoleScreenBufferInfo(handle) ==
    IF handle = "CONOUT$" THEN <<consoleAttr>> ELSE <<>>
SetConsoleTextAttribute(handle, attributes) ==
    IF handle = "CONOUT$" THEN attributes ELSE consoleAttr

(* the baseline Logger::Initialize records for a handle *)
BaselineOf(handle) ==
    IF IsConsoleAvailable(handle)
    THEN IF GetConsoleScreenBufferInfo(handle) # <<>>
         THEN GetConsoleScreenBufferInfo(handle)[1]
         ELSE DEFAULT_CONSOLE_ATTRIBUTES
    ELSE DEFAULT_CONSOLE_ATTRIBUTES

(* what a severity writes with: its handle, baseline, color and prefix *)
HandleOfStdout(sev) == consoleHandle_
HandleOf(sev) == IF sev = "INFO" THEN consoleHandle_ ELSE errorConsoleHandle_
DefaultOfNone(sev) == NoAttributes
DefaultOf(sev) == IF sev = "INFO" THEN defaultAttributes_ ELSE errorDefaultAttributes_
ColorOf(sev) == IF sev = "INFO" THEN InfoColor ELSE ErrorColor
PrefixOf(sev) == IF sev = "INFO" THEN "[INFO] " ELSE "[ERROR] "

(* if (!initialized_) *)
UninitializedAlways == TRUE
Uninitialized == ~initialized_

(* the lock a call may take: std::mutex, free or owned by one thread *)
MutexNeverHeld == TRUE
MutexFree == consoleMutex_ = 0

(* the mutex once the lock_guard of thread t is constructed: owned by t    *)
(* for the rest of the function                                            *)
AfterLockFree(t) == 0
AfterLock(t) == t

(* std::lock_guard lock(consoleMutex_), then the test of initialized_ *)
LogLock(t) ==
    /\ At(t, "Log", "lock")
    /\ MutexFree
    /\ consoleMutex_' = AfterLock(t)
    /\ stack' = [stack EXCEPT ![t][Len(stack[t])].pc =
                    IF Uninitialized THEN "init" ELSE "color"]
    /\ UNCHANGED <<ret, calls, vehList, consoleHandle_, errorConsoleHandle_,
                   defaultAttributes_, errorDefaultAttributes_, initialized_,
                   hostVars, streamVars, logCalls>>

(* Logger::Initialize() *)
LoggerInitialize(t) ==
    /\ At(t, "Log", "init")
    /\ IF Uninitialized
       THEN /\ consoleHandle_' = stdHandles.out
            /\ errorConsoleHandle_' = stdHandles.err
            /\ defaultAttributes_' = BaselineOf(stdHandles.out)
            /\ errorDefaultAttributes_' = BaselineOf(stdHandles.err)
            /\ initialized_' = TRUE
       ELSE UNCHANGED <<consoleHandle_, errorConsoleHandle_, defaultAttributes_,
                        errorDefaultAttributes_, initialized_>>
    /\ stack' = [stack EXCEPT ![t][Len(stack[t])].pc = "color"]
    /\ UNCHANGED <<ret, calls, vehList, consoleMutex_, hostVars, streamVars, logCalls>>

(* a step of the call on top of thread t's stack to pc next, after which   *)
(* the call has called SetConsoleTextAttribute once more if called holds   *)
Stepped(t, next, called) ==
    [stack EXCEPT ![t][Len(stack[t])] =
        [@ EXCEPT !.pc = next,
                  !.attributeCalls = IF called THEN @ + 1 ELSE @]]

(* SetConsoleTextAttribute(handle, color), if the console is available *)
LogSetColor(t) ==
    /\ At(t, "Log", "color")
    /\ consoleAttr' = IF IsConsoleAvailable(HandleOf(Top(t).sev))
                      THEN SetConsoleTextAttribute(HandleOf(Top(t).sev),
                                                   ColorOf(Top(t).sev))
                      ELSE consoleAttr
    /\ stack' = Stepped(t, "prefix", IsConsoleAvailable(HandleOf(Top(t).sev)))
    /\ UNCHANGED <<ret, calls, vehList, loggerVars, stdHandles, streamVars, logCalls>>

(* std::cout << for LogInfo, std::cerr << for LogError *)
StreamOfStdout(sev) == "cout"
StreamOf(sev) == IF sev = "INFO" THEN "cout" ELSE "cerr"

InsertDelayed(t, text, next) ==
    /\ output' = <<[stream |-> StreamOf(Top(t).sev),
                    call |-> Top(t).call, text |-> text]>> \o output
    /\ stack' = [stack EXCEPT ![t][Len(stack[t])].pc = next]
    /\ UNCHANGED <<ret, calls, vehList, loggerVars, hostVars, logCalls>>

(* one insertion into the stream of the call's severity *)
Insert(t, text, next) ==
    /\ output' = Append(output, [stream |-> StreamOf(Top(t).sev),
                                 call |-> Top(t).call, text |-> text])
    /\ stack' = [stack EXCEPT ![t][Len(stack[t])].pc = next]
    /\ UNCHANGED <<ret, calls, vehList, loggerVars, hostVars, logCalls>>

(* << "[INFO] " or << "[ERROR] " *)
LogWritePrefix(t) ==
    /\ At(t, "Log", "prefix")
    /\ Insert(t, PrefixOf(Top(t).sev), "message")

(* << message *)
LogWriteMessage(t) ==
    /\ At(t, "Log", "message")
    /\ Insert(t, Top(t).message, "endl")

(* what follows the insertions: the restoring of the color *)
AfterEndlUnlock == "unlock"
AfterEndl == "restore"

(* << std::endl *)
LogWriteEndl(t) ==
    /\ At(t, "Log", "endl")
    /\ Insert(t, "\n", AfterEndl)

(* SetConsoleTextAttribute(handle, baseline), if the console is available *)
LogRestoreColor(t) ==
    /\ At(t, "Log", "restore")
    /\ consoleAttr' = IF IsConsoleAvailable(HandleOf(Top(t).sev))
                      THEN SetConsoleTextAttribute(HandleOf(Top(t).sev),
                                                   DefaultOf(Top(t).sev))
                      ELSE consoleAttr
    /\ stack' = Stepped(t, "unlock", IsConsoleAvailable(HandleOf(Top(t).sev)))
    /\ UNCHANGED <<ret, calls, vehList, loggerVars, stdHandles, streamVars, logCalls>>

(* the mutex after the lock_guard of thread t is destroyed: free *)
AfterUnlockHeld(t) == t
AfterUnlock(t) == 0

(* the lock_guard's destructor, and the return to the caller *)
LogUnlock(t) ==
    /\ At(t, "Log", "unlock")
    /\ consoleMutex_' = AfterUnlock(t)
    /\ stack' = [stack EXCEPT ![t] = Below(t)]
    /\ UNCHANGED <<ret, calls, vehList, consoleHandle_, errorConsoleHandle_,
                   defaultAttributes_, errorDefaultAttributes_, initialized_,
                   hostVars, streamVars, logCalls>>

(* std::lock_guard lock(consoleMutex_) by the thread that owns the mutex:  *)
(* undefined behaviour of std::mutex::lock.  What builds do: the call      *)
(* blocks forever, or it throws std::system_error (which nothing catches:  *)
(* the thread never returns from the call), or it returns as if the lock   *)
(* had been taken                                                          *)
RelockOutcomes == {"deadlock", "system_error", "acquired"}
LogRelock(t) ==
    /\ At(t, "Log", "lock")
    /\ consoleMutex_ = t
    /\ \E outcome \in RelockOutcomes :
          stack' = [stack EXCEPT ![t][Len(stack[t])].pc =
                      IF outcome = "acquired"
                      THEN (IF Uninitialized THEN "init" ELSE "color")
                      ELSE outcome]
    /\ UNCHANGED <<ret, calls, vehList, loggerVars, hostVars, streamVars, logCalls>>

(* a thread of the application calls LogInfo or LogError *)
CallLog(t, sev, message) ==
    /\ Idle(t)
    /\ calls' = calls + 1
    /\ logCalls' = Append(logCalls, LogCall(t, sev, message))
    /\ stack' = [stack EXCEPT ![t] = <<LogFrame(sev, message, Len(logCalls) + 1)>>]
    /\ UNCHANGED <<ret, vehList, loggerVars, hostVars, streamVars>>

----------------------------------------------------------------------------
(* CrashInterceptor.cpp: Initialize *)

(* AddVectoredExceptionHandler(1, HandlerRoutine), when the host accepts:  *)
(* a nonzero first argument puts the routine at the head of the list       *)
RegisterOnce(list) == IF list = <<>> THEN <<"HandlerRoutine">> ELSE list
Register(list) == <<"HandlerRoutine">> \o list

InitializedMessage == "Crash Interceptor initialized successfully"
FailedMessage == "Failed to register Vectored Exception Handler"

(* return true / return false *)
InitializeResultTrue(accepted) == "true"
InitializeResult(accepted) == IF accepted THEN "true" ELSE "false"

(* CrashInterceptor::Initialize up to its call of the logger: the host     *)
(* accepts the registration or refuses it (handler == nullptr)             *)
CallInitialize(t) ==
    /\ Idle(t)
    /\ calls' = calls + 1
    /\ \E accepted \in BOOLEAN :
         /\ vehList' = IF accepted THEN Register(vehList) ELSE vehList
         /\ LET sev == IF accepted THEN "INFO" ELSE "ERROR"
                message == IF accepted THEN InitializedMessage ELSE FailedMessage
            IN  /\ logCalls' = Append(logCalls, LogCall(t, sev, message))
                /\ stack' = [stack EXCEPT ![t] =
                      <<[fn |-> "Initialize", pc |-> "logged",
                         value |-> InitializeResult(accepted),
                         call |-> Len(logCalls) + 1],
                        LogFrame(sev, message, Len(logCalls) + 1)>>]
    /\ UNCHANGED <<ret, loggerVars, hostVars, streamVars>>

(* return true / return false *)
InitializeReturn(t) ==
    /\ At(t, "Initialize", "logged")
    /\ ret' = [ret EXCEPT ![t] = [fn |-> "Initialize", value |-> Top(t).value,
                                  reads |-> {}, infoReads |-> {}, logs |-> 1]]
    /\ stack' = [stack EXCEPT ![t] = Below(t)]
    /\ UNCHANGED <<calls, vehList, loggerVars, hostVars, streamVars, logCalls>>

----------------------------------------------------------------------------
(* The host's dispatch of an exception, and HandlerRoutine's invocations *)

(* an exception is raised on thread t, its descriptor one of infos: the   *)
(* host walks the handlers that are registered at that moment, on the      *)
(* faulting thread                                                         *)
RaiseException(t, infos) ==
    /\ Idle(t)
    /\ calls' = calls + 1
    /\ \E info \in infos :
         stack' = [stack EXCEPT ![t] =
            <<[fn |-> "Dispatch", pc |-> "walk", info |-> info,
               observers |-> Len(vehList), todo |-> Len(vehList),
               emitted |-> <<>>, disposition |-> EXCEPTION_CONTINUE_SEARCH]>>]
    /\ UNCHANGED <<ret, vehList, loggerVars, hostVars, streamVars, logCalls>>

(* an exception is raised on thread t while it executes LogInfo or         *)
(* LogError with the mutex locked: the host walks the handlers on top of   *)
(* the interrupted call                                                    *)
LockedPcs == {"init", "color", "prefix", "message", "endl", "restore", "unlock"}
RaiseInLogger(t, infos) ==
    /\ ~Idle(t)
    /\ Top(t).fn = "Log"
    /\ Top(t).pc \in LockedPcs
    /\ calls' = calls + 1
    /\ \E info \in infos :
         stack' = [stack EXCEPT ![t] = Append(stack[t],
            [fn |-> "Dispatch", pc |-> "walk", info |-> info,
             observers |-> Len(vehList), todo |-> Len(vehList),
             emitted |-> <<>>, disposition |-> EXCEPTION_CONTINUE_SEARCH])]
    /\ UNCHANGED <<ret, vehList, loggerVars, hostVars, streamVars, logCalls>>

(* the walk after a handler returned: on, or over if it resumes execution; *)
(* the descriptor is as the host made it                                   *)
WalkedPatched(frame, value, logged) ==
    [frame EXCEPT !.todo = IF value = EXCEPTION_CONTINUE_SEARCH THEN @ - 1 ELSE 0,
                  !.emitted = @ \o logged,
                  !.disposition = value,
                  !.info = IF IsNull(@) THEN @
                           ELSE <<[@[1] EXCEPT !.ContextRecord = <<"PATCHED">>]>>]
Walked(frame, value, logged) ==
    [frame EXCEPT !.todo = IF value = EXCEPTION_CONTINUE_SEARCH THEN @ - 1 ELSE 0,
                  !.emitted = @ \o logged,
                  !.disposition = value]

(* HandlerRoutine on each descriptor that is raised *)
Invocation[info \in AllInfos \cup SanitizeInfos] == HandlerRoutine(info)

(* the characters a std::string holds without memory from the heap: 15 or  *)
(* 22, by the implementation                                               *)
SmallStringCapacity == 22

(* the heap allocations of the LogError calls: LogError takes a            *)
(* const std::string&, so each call with a char buffer or a literal builds *)
(* a std::string temporary, on the heap if the text is longer than the     *)
(* small-string buffer                                                     *)
HeapAllocations(errors) ==
    Cardinality({i \in 1..Len(errors) : Len(errors[i]) > SmallStringCapacity})

(* char logBuffer[256], a local of the invocation: what thread t's         *)
(* invocation h hands to LogError is what it formatted itself              *)
LogBufferStatic(t, h) ==
    LET others == UNION {{logCalls[stack[u][i].call].message :
                              i \in {j \in 1..Len(stack[u]) :
                                        stack[u][j].fn = "HandlerRoutine"}} :
                         u \in Threads \ {t}}
    IN  IF others = {} THEN h.errors[1] ELSE CHOOSE m \in others : TRUE
LogBuffer(t, h) == h.errors[1]

(* HandlerRoutine, of which h is the computation and result what sprintf_s *)
(* returned, runs up to its call of LogError, or to its return when it     *)
(* logs nothing                                                            *)
Invoke(t, h, result) ==
    IF h.errors = <<>>
    THEN /\ stack' = [stack EXCEPT ![t] =
               Append(Below(t), Walked(Top(t), h.value, <<>>))]
         /\ ret' = [ret EXCEPT ![t] =
               [fn |-> "HandlerRoutine", value |-> h.value, reads |-> h.reads,
                infoReads |-> h.infoReads, logs |-> 0]]
         /\ logCalls' = logCalls
    ELSE /\ stack' = [stack EXCEPT ![t] = stack[t] \o
               <<[fn |-> "HandlerRoutine", pc |-> "logged",
                  info |-> Top(t).info, value |-> h.value,
                  reads |-> h.reads, infoReads |-> h.infoReads,
                  sanitizedAddress |-> h.sanitizedAddress,
                  call |-> Len(logCalls) + 1,
                  result |-> result,
                  heapAllocations |-> HeapAllocations(h.errors)],
                 LogFrame("ERROR", LogBuffer(t, h), Len(logCalls) + 1)>>]
         /\ ret' = ret
         /\ logCalls' = Append(logCalls, LogCall(t, "ERROR", LogBuffer(t, h)))

(* the host calls the next handler; sprintf_s, where HandlerRoutine calls  *)
(* it, returns the number of characters it wrote                           *)
DispatchNext(t) ==
    /\ At(t, "Dispatch", "walk")
    /\ Top(t).todo > 0
    /\ LET h == Invocation[Top(t).info]
       IN  Invoke(t, h, IF h.errors = <<>> THEN 0 ELSE Len(h.errors[1]))
    /\ UNCHANGED <<calls, vehList, loggerVars, hostVars, streamVars>>

(* what sprintf_s leaves when it fails: a result that is not positive, and *)
(* a buffer that is empty or holds what it had                             *)
FailedFormats ==
    {[result |-> 0 - 1, logBuffer |-> ""],
     [result |-> 0, logBuffer |-> ""],
     [result |-> 0 - 1, logBuffer |-> "0x00007FF6A0001234"]}

(* HandlerRoutine when its sprintf_s call leaves failed *)
InvocationFailing(info, failed) ==
    LET h == Invocation[info]
    IN  IF h.errors = <<>> THEN h
        ELSE [h EXCEPT !.errors =
                <<FormattedOrFallback(failed,
                    IF IsGuardPage(Deref(Deref(info).ExceptionRecord).ExceptionCode)
                    THEN GuardPageFallback ELSE AccessViolationFallback)>>]

(* the host calls the next handler, and sprintf_s fails where               *)
(* HandlerRoutine calls it                                                 *)
DispatchNextFormatFailure(t) ==
    /\ At(t, "Dispatch", "walk")
    /\ Top(t).todo > 0
    /\ Invocation[Top(t).info].errors # <<>>
    /\ \E failed \in FailedFormats :
          Invoke(t, InvocationFailing(Top(t).info, failed), failed.result)
    /\ UNCHANGED <<calls, vehList, loggerVars, hostVars, streamVars>>

(* HandlerRoutine returns after LogError returned *)
HandlerReturn(t) ==
    /\ At(t, "HandlerRoutine", "logged")
    /\ ret' = [ret EXCEPT ![t] =
          [fn |-> "HandlerRoutine", value |-> Top(t).value, reads |-> Top(t).reads,
           infoReads |-> Top(t).infoReads, logs |-> 1]]
    /\ stack' = [stack EXCEPT ![t] =
          Append(SubSeq(stack[t], 1, Len(stack[t]) - 2),
                 Walked(stack[t][Len(stack[t]) - 1], Top(t).value, <<Top(t).call>>))]
    /\ UNCHANGED <<calls, vehList, loggerVars, hostVars, streamVars, logCalls>>

(* the walk is over: the exception goes on to the handlers after the       *)
(* vectored ones, or execution resumes                                     *)
DispatchDone(t) ==
    /\ At(t, "Dispatch", "walk")
    /\ Top(t).todo = 0
    /\ ret' = [ret EXCEPT ![t] =
          [fn |-> "Dispatch", value |-> Top(t).disposition, reads |-> {},
           infoReads |-> {}, logs |-> Len(Top(t).emitted)]]
    /\ stack' = [stack EXCEPT ![t] = Below(t)]
    /\ UNCHANGED <<calls, vehList, loggerVars, hostVars, streamVars, logCalls>>

----------------------------------------------------------------------------
(* Specifications *)

(* a thread takes the next step of the operation it is in *)
Continue(t) ==
    \/ LogLock(t)
    \/ LoggerInitialize(t)
    \/ LogSetColor(t)
    \/ LogWritePrefix(t)
    \/ LogWriteMessage(t)
    \/ LogWriteEndl(t)
    \/ LogRestoreColor(t)
    \/ LogUnlock(t)
    \/ InitializeReturn(t)
    \/ DispatchNext(t)
    \/ HandlerReturn(t)
    \/ DispatchDone(t)

(* threads run concurrently, start MaxCalls operations and raise a few     *)
(* exceptions                                                              *)
Next ==
    \E t \in Threads :
        \/ calls < MaxCalls /\ \E sev \in {"INFO", "ERROR"} : CallLog(t, sev, AppMessage(t))
        \/ calls < MaxCalls /\ CallInitialize(t)
        \/ calls < MaxCalls /\ RaiseException(t, SomeInfos)
        \/ Continue(t)
Spec == Init /\ [][Next]_vars

(* one thread starts MaxCallsWide operations and raises every exception *)
NextWide ==
    \/ calls < MaxCallsWide /\ \E sev \in {"INFO", "ERROR"} : CallLog(1, sev, AppMessage(1))
    \/ calls < MaxCallsWide /\ CallInitialize(1)
    \/ calls < MaxCallsWide /\ RaiseException(1, AllInfos)
    \/ Continue(1)
SpecWide == Init /\ [][NextWide]_vars

(* the descriptors raised inside the logger: one recognized, one not *)
NestedInfos ==
    {Pointers(Record(STATUS_BREAKPOINT, 0, U64(0, 0, 0, 1), Zero64)),
     Pointers(Record(STATUS_GUARD_PAGE_VIOLATION, 2, Zero64, Addr_1234))}

(* as Continue, with the step of a thread that locks the mutex it owns *)
ContinueNested(t) == Continue(t) \/ LogRelock(t)

(* threads run concurrently and start MaxCallsNested operations, among     *)
(* them exceptions raised while the thread is inside the logger; every     *)
(* thread that can take a step eventually takes one                        *)
NextNested ==
    \E t \in Threads :
        \/ calls < MaxCallsNested /\ CallLog(t, "INFO", AppMessage(t))
        \/ calls < MaxCallsNested /\ CallInitialize(t)
        \/ calls < MaxCallsNested /\ RaiseException(t, NestedInfos)
        \/ calls < MaxCallsNested /\ RaiseInLogger(t, NestedInfos)
        \/ ContinueNested(t)
SpecNested ==
    Init /\ [][NextNested]_vars /\ \A t \in Threads : WF_vars(ContinueNested(t))

(* one thread registers and raises every exception; where HandlerRoutine   *)
(* formats a message, sprintf_s succeeds or fails                          *)
NextFormat ==
    \/ calls < MaxCallsFormat /\ CallInitialize(1)
    \/ calls < MaxCallsFormat /\ RaiseException(1, AllInfos)
    \/ Continue(1)
    \/ DispatchNextFormatFailure(1)
SpecFormat == Init /\ [][NextFormat]_vars

(* the steps of LogInfo and LogError *)
ContinueLog(t) ==
    \/ LogLock(t)
    \/ LoggerInitialize(t)
    \/ LogSetColor(t)
    \/ LogWritePrefix(t)
    \/ LogWriteMessage(t)
    \/ LogWriteEndl(t)
    \/ LogRestoreColor(t)
    \/ LogUnlock(t)

(* the threads make MaxCallsFair LogInfo and LogError calls between them;  *)
(* every thread that can take a step of its call eventually takes one, and *)
(* the insertions into the streams are steps that complete                 *)
NextFair ==
    \E t \in Threads :
        \/ calls < MaxCallsFair /\ \E sev \in {"INFO", "ERROR"} : CallLog(t, sev, AppMessage(t))
        \/ ContinueLog(t)
SpecFair == Init /\ [][NextFair]_vars /\ \A t \in Threads : WF_vars(ContinueLog(t))

(* the process redirects its standard handles (SetStdHandle): from then on *)
(* GetStdHandle returns other handles                                      *)
HostSetStdHandle ==
    /\ stdHandles' \in StdHandleConfigs \ {stdHandles}
    /\ UNCHANGED <<stack, ret, calls, vehList, loggerVars, consoleAttr,
                   streamVars, logCalls>>

(* the threads make MaxCallsHost LogInfo and LogError calls between them,  *)
(* while the process may redirect its standard handles at any moment       *)
NextHost ==
    \/ \E t \in Threads :
          \/ calls < MaxCallsHost /\ \E sev \in {"INFO", "ERROR"} : CallLog(t, sev, AppMessage(t))
          \/ ContinueLog(t)
    \/ HostSetStdHandle
SpecHost == Init /\ [][NextHost]_vars

(* the state in which thread 1 has returned from one CrashInterceptor::    *)
(* Initialize that the host accepted: the observer is installed, the       *)
(* logger is initialized and the line of the call is in standard output    *)
Registered ==
    /\ stack = [t \in Threads |-> <<>>]
    /\ ret = [t \in Threads |->
                IF t = 1
                THEN [fn |-> "Initialize", value |-> InitializeResult(TRUE),
                      reads |-> {}, infoReads |-> {}, logs |-> 1]
                ELSE NoReturn]
    /\ calls = 1
    /\ vehList = Register(<<>>)
    /\ consoleMutex_ = 0
    /\ stdHandles \in StdHandleConfigs
    /\ consoleHandle_ = stdHandles.out
    /\ errorConsoleHandle_ = stdHandles.err
    /\ consoleAttr = StartAttributes
    /\ defaultAttributes_ =
          IF stdHandles.out = "CONOUT$" THEN consoleAttr
          ELSE DEFAULT_CONSOLE_ATTRIBUTES
    /\ errorDefaultAttributes_ =
          IF stdHandles.err = "CONOUT$" THEN consoleAttr
          ELSE DEFAULT_CONSOLE_ATTRIBUTES
    /\ initialized_ = TRUE
    /\ logCalls = <<LogCall(1, "INFO", InitializedMessage)>>
    /\ output = <<[stream |-> "cout", call |-> 1, text |-> "[INFO] "],
                  [stream |-> "cout", call |-> 1, text |-> InitializedMessage],
                  [stream |-> "cout", call |-> 1, text |-> "\n"]>>

(* the steps of Continue that are left once the logger is initialized and *)
(* Initialize has returned                                                 *)
ContinueRegistered(t) ==
    \/ LogLock(t)
    \/ LogSetColor(t)
    \/ LogWritePrefix(t)
    \/ LogWriteMessage(t)
    \/ LogWriteEndl(t)
    \/ LogRestoreColor(t)
    \/ LogUnlock(t)
    \/ DispatchNext(t)
    \/ HandlerReturn(t)
    \/ DispatchDone(t)

(* after the registration, one thread raises recognized exceptions at the  *)
(* addresses of SanitizeAddresses                                          *)
NextSanitize ==
    \/ calls < MaxCallsSanitize /\ RaiseException(1, SanitizeInfos)
    \/ ContinueRegistered(1)
SpecSanitize == Registered /\ [][NextSanitize]_vars

(* the descriptors that make the handler format a message: every           *)
(* recognized code, every kind and count, the addresses of AllInfos and    *)
(* those of SanitizeAddresses                                              *)
ReportInfos == {info \in AllInfos \cup SanitizeInfos : Invocation[info].errors # <<>>}

(* after the registration, one thread raises the exceptions of ReportInfos *)
NextReports ==
    \/ calls < MaxCallsReports /\ RaiseException(1, ReportInfos)
    \/ ContinueRegistered(1)
SpecReports == Registered /\ [][NextReports]_vars

(* the descriptors raised on the concurrent threads after registration *)
ConcurrentInfos ==
    {NullInfo, NullRecordInfo,
     Pointers(Record(STATUS_BREAKPOINT, 0, U64(0, 0, 0, 1), Zero64)),
     Pointers(Record(STATUS_GUARD_PAGE_VIOLATION, 2, Zero64, Addr_1234)),
     Pointers(Record(STATUS_ACCESS_VIOLATION, 2, U64(0, 0, 0, 1), Addr_1FFF))}

(* after the registration, threads raise exceptions and log concurrently *)
NextConcurrent ==
    \E t \in Threads :
        \/ calls < MaxCallsConcurrent /\ RaiseException(t, ConcurrentInfos)
        \/ calls < MaxCallsConcurrent /\ CallLog(t, "INFO", AppMessage(t))
        \/ ContinueRegistered(t)
SpecConcurrent == Registered /\ [][NextConcurrent]_vars

(* as SpecConcurrent, where thread 1 may stop for ever at any point, also  *)
(* inside the logger with the mutex locked, while thread 2 goes on taking  *)
(* the steps it can take                                                   *)
SpecStalled ==
    Registered /\ [][NextConcurrent]_vars /\ WF_vars(ContinueRegistered(2))

----------------------------------------------------------------------------
(* Properties.  What they speak of: the descriptors as raised, and the     *)
(* invocations of HandlerRoutine that are in progress (their frames).      *)

WellFormed(info) == info # NullPtr /\ info[1].ExceptionRecord # NullPtr
RecordOf(info) == info[1].ExceptionRecord[1]
CodeOf(info) == RecordOf(info).ExceptionCode
Recognized(info) ==
    /\ WellFormed(info)
    /\ CodeOf(info) \in {STATUS_GUARD_PAGE_VIOLATION, STATUS_ACCESS_VIOLATION}

(* P holds of every invocation of HandlerRoutine that is in progress *)
EveryInvocation(P(_)) ==
    \A t \in Threads : \A i \in 1..Len(stack[t]) :
        stack[t][i].fn = "HandlerRoutine" => P(stack[t][i])

(* thread t's invocation of HandlerRoutine has logged and is about to return *)
AboutToReturn(t) == At(t, "HandlerRoutine", "logged")

(* C1: every invocation of HandlerRoutine for a recognized exception code, *)
(* whatever the parameter count and the parameters, returns                *)
(* EXCEPTION_CONTINUE_SEARCH; no invocation on any path returns            *)
(* EXCEPTION_CONTINUE_EXECUTION.                                           *)
C1_AlwaysContinueSearch ==
    /\ EveryInvocation(LAMBDA f :
          Recognized(f.info) /\ f.value = EXCEPTION_CONTINUE_SEARCH)
    /\ \A t \in Threads :
          ret[t].fn \in {"HandlerRoutine", "Dispatch"}
              => ret[t].value = EXCEPTION_CONTINUE_SEARCH

(* a guard-page fault with three parameters was logged, and HandlerRoutine *)
(* is about to return its disposition                                      *)
C1_Witness ==
    /\ AboutToReturn(1)
    /\ CodeOf(Top(1).info) = STATUS_GUARD_PAGE_VIOLATION
    /\ RecordOf(Top(1).info).NumberParameters = 3
    /\ Top(1).value = EXCEPTION_CONTINUE_SEARCH

(* the step by which thread t's dispatch invokes HandlerRoutine on a       *)
(* descriptor for which D holds                                            *)
Invokes(t, D(_)) ==
    /\ At(t, "Dispatch", "walk")
    /\ Top(t).todo > 0
    /\ D(Top(t).info)
    /\ stack'[t] # stack[t]

Unrecognized(info) == WellFormed(info) /\ ~Recognized(info)

(* C2: an invocation of HandlerRoutine for an exception code other than    *)
(* the two recognized ones returns EXCEPTION_CONTINUE_SEARCH in that one   *)
(* step, without a call of LogInfo or LogError: the calls made and what    *)
(* the two streams hold are as they were before the invocation.            *)
C2_UnrecognizedEmitsNothing ==
    [][\A t \in Threads :
          Invokes(t, Unrecognized) =>
              /\ logCalls' = logCalls
              /\ output' = output
              /\ Len(stack'[t]) = Len(stack[t])
              /\ ret'[t].fn = "HandlerRoutine"
              /\ ret'[t].value = EXCEPTION_CONTINUE_SEARCH
              /\ ret'[t].logs = 0]_vars

(* with an observer installed and a line already in the streams, a         *)
(* breakpoint exception was dispatched and HandlerRoutine returned         *)
C2_Witness ==
    /\ At(1, "Dispatch", "walk")
    /\ Top(1).observers = 1
    /\ Top(1).todo = 0
    /\ Unrecognized(Top(1).info)
    /\ CodeOf(Top(1).info) = STATUS_BREAKPOINT
    /\ ret[1].fn = "HandlerRoutine"
    /\ Len(output) = 3

Absent(info) == ~WellFormed(info)

(* C3: an invocation of HandlerRoutine whose descriptor pointer is null,   *)
(* or whose descriptor's record pointer is null, returns                   *)
(* EXCEPTION_CONTINUE_SEARCH in that one step: it has read no field of a   *)
(* record and no parameter, and it called neither LogInfo nor LogError.    *)
C3_MalformedDefers ==
    [][\A t \in Threads :
          Invokes(t, Absent) =>
              /\ logCalls' = logCalls
              /\ output' = output
              /\ Len(stack'[t]) = Len(stack[t])
              /\ ret'[t].fn = "HandlerRoutine"
              /\ ret'[t].value = EXCEPTION_CONTINUE_SEARCH
              /\ ret'[t].reads = {}
              /\ ret'[t].infoReads = {}
              /\ ret'[t].logs = 0]_vars

(* a descriptor without a record was dispatched to the installed observer, *)
(* which returned                                                          *)
C3_Witness ==
    /\ At(1, "Dispatch", "walk")
    /\ Top(1).observers = 1
    /\ Top(1).todo = 0
    /\ Top(1).info = NullRecordInfo
    /\ ret[1].fn = "HandlerRoutine"
    /\ ret[1].reads = {}

(* the three insertions of a call's line: prefix, message, newline *)
LinePiece(call, k) ==
    IF k = 0 THEN (IF logCalls[call].sev = "INFO" THEN "[INFO] " ELSE "[ERROR] ")
    ELSE IF k = 1 THEN logCalls[call].message
    ELSE "\n"

AllIdle == \A t \in Threads : Idle(t)

(* C4: whatever the interleaving of the threads' LogInfo and LogError      *)
(* calls, the output is a sequence of whole lines: each line is the        *)
(* prefix, the message and the newline of one call, with no insertion of   *)
(* another call in between (on either stream); no call writes two lines;   *)
(* and when every call has returned there are as many lines as calls.      *)
C4_WholeLines ==
    /\ \A i \in 1..Len(output) :
          LET k == (i - 1) % 3
              first == output[i - k]
          IN  /\ output[i].call = first.call
              /\ output[i].stream = first.stream
              /\ output[i].text = LinePiece(first.call, k)
    /\ \A i, j \in 1..Len(output) :
          (i # j /\ i % 3 = 1 /\ j % 3 = 1) => output[i].call # output[j].call
    /\ AllIdle => Len(output) = 3 * Len(logCalls)

(* two threads are inside the logger at once: thread 1 is in the middle of *)
(* its informational line while thread 2 waits to write an error line      *)
C4_Witness ==
    /\ At(1, "Log", "message")
    /\ At(2, "Log", "lock")
    /\ Top(1).sev = "INFO"
    /\ Top(2).sev = "ERROR"

(* the whole line of a call is in the error stream *)
ErrorLineWritten(call) ==
    \E i \in 1..Len(output) :
        /\ i % 3 = 1
        /\ i + 2 <= Len(output)
        /\ \A k \in 0..2 : /\ output[i + k].call = call
                           /\ output[i + k].stream = "cerr"
                           /\ output[i + k].text = LinePiece(call, k)

(* thread t's walk of the observers is over *)
WalkOver(t) == At(t, "Dispatch", "walk") /\ Top(t).todo = 0

SuccessesLogged ==
    Cardinality({c \in 1..Len(logCalls) : logCalls[c].message = InitializedMessage})

(* C6, as claimed: however often Initialize is called, at most one         *)
(* observer is installed.                                                  *)
C6_AtMostOneObserver == Len(vehList) <= 1

(* C6, amended: every call of Initialize that the host accepts installs    *)
(* one more observer, with the same routine, and reports success; a        *)
(* second call is neither rejected nor without effect.  The observers      *)
(* installed are as many as the successful calls.                          *)
C6_OneObserverPerSuccess ==
    /\ Len(vehList) = SuccessesLogged
    /\ \A i \in 1..Len(vehList) : vehList[i] = "HandlerRoutine"

(* Initialize succeeded twice and two observers are installed *)
C6_Witness ==
    /\ Len(vehList) = 2
    /\ ret[1].fn = "Initialize"
    /\ ret[1].value = "true"
    /\ AllIdle

(* what an invocation handed to LogError *)
Emitted(f) == logCalls[f.call].message

(* the address the descriptor holds for the fault, and the access kind *)
AddressOf(info) == RecordOf(info).ExceptionInformation[1]
KindOf(info) == RecordOf(info).ExceptionInformation[0]
CountOf(info) == RecordOf(info).NumberParameters

(* a with the bits below the power of two p (at most 65536) cleared *)
ClearLow(a, p) == <<a[1], a[2], a[3], a[4] - (a[4] % p)>>

(* the text of each branch for the address it reports *)
GuardPageText(reported) ==
    "[CRITICAL] Guard Page Violation Detected at 0x"
        \o FormatHex016(reported) \o " (page-aligned)!"
AccessViolationText(phrase, reported) ==
    "[CRITICAL] Access Violation! " \o phrase \o " address 0x"
        \o FormatHex016(reported) \o " (page-aligned)"

(* the size of a 4 KB page *)
FourKilobytes == 4096

(* the phrases of the access kinds, the addresses a 4 KB mask can give for *)
(* the addresses raised, and each with the texts that carry it             *)
Phrases == {"Read from", "Write to", "DEP violation at", "Access to"}
ReportedAddresses == {ClearLow(a, FourKilobytes) : a \in AllAddresses}
Reports ==
    {<<r, GuardPageText(r)>> : r \in ReportedAddresses}
    \cup {<<r, AccessViolationText(phrase, r)>> :
            r \in ReportedAddresses, phrase \in Phrases}

(* page sizes of platforms: 4 KB, 8 KB, 64 KB *)
PageSizes == {4096, 8192, 65536}


(* C7, as claimed: for every page size p of PageSizes, the address that an *)
(* invocation reports for a faulting address a is a with its low log2(p)   *)
(* bits cleared, a multiple of p: it follows the page size.                *)
C7_AnyPageSize ==
    \A p \in PageSizes :
        EveryInvocation(LAMBDA f :
            CountOf(f.info) >= 2 =>
                /\ f.sanitizedAddress = ClearLow(AddressOf(f.info), p)
                /\ f.sanitizedAddress[4] % p = 0)

(* C7, amended: the address an invocation reports for a faulting address a *)
(* is a with its low 12 bits cleared, whatever the page size of the        *)
(* platform: the mask is the constant 0xFFF.  It is at most a, a multiple  *)
(* of 4096, and it is what the message carries.                            *)
C7_FourKilobyteMask ==
    EveryInvocation(LAMBDA f :
        CountOf(f.info) >= 2 =>
            /\ f.sanitizedAddress = ClearLow(AddressOf(f.info), FourKilobytes)
            /\ Leq64(f.sanitizedAddress, AddressOf(f.info))
            /\ f.sanitizedAddress[4] % FourKilobytes = 0
            /\ <<f.sanitizedAddress, Emitted(f)>> \in Reports)

(* a guard-page fault at 0x00007FF6A0001234 was logged with the address    *)
(* 0x00007FF6A0001000, which is not a multiple of 8192                     *)
C7_Witness ==
    /\ AboutToReturn(1)
    /\ CodeOf(Top(1).info) = STATUS_GUARD_PAGE_VIOLATION
    /\ CountOf(Top(1).info) = 2
    /\ AddressOf(Top(1).info) = Addr_1234
    /\ Top(1).sanitizedAddress = Addr_1000
    /\ Emitted(Top(1)) = GuardPageText(Addr_1000)

(* the descriptor of info with another faulting address *)
WithAddress(info, a) ==
    Pointers(Record(CodeOf(info), CountOf(info), KindOf(info), a))

SamePage(a, b) == ClearLow(a, FourKilobytes) = ClearLow(b, FourKilobytes)

(* HandlerRoutine on a descriptor and on those that differ from it only in *)
(* the page-offset bits of the faulting address: the same LogError call    *)
(* and the same disposition                                                *)
OffsetFree ==
    {info \in AllInfos :
        Recognized(info) =>
            \A a \in AllAddresses :
                SamePage(a, AddressOf(info)) =>
                    /\ Invocation[WithAddress(info, a)].errors = Invocation[info].errors
                    /\ Invocation[WithAddress(info, a)].value = Invocation[info].value}

(* C8: what an invocation for a recognized exception hands to LogError is  *)
(* what the invocation for any exception that differs from it only in the  *)
(* page-offset bits of the faulting address hands to it, with the same     *)
(* disposition; the address in it is the base of the page, so it differs   *)
(* from the faulting address whenever that has a page offset.              *)
C8_PageOffsetNeverEmitted ==
    EveryInvocation(LAMBDA f :
        /\ f.info \in OffsetFree
        /\ Invocation[f.info].errors = <<Emitted(f)>>
        /\ Invocation[f.info].value = f.value
        /\ f.sanitizedAddress[4] % FourKilobytes = 0
        /\ <<f.sanitizedAddress, Emitted(f)>> \in Reports)

(* a write fault at 0x00007FF6A0001FFF was logged: the same page as        *)
(* 0x00007FF6A0001234, another offset                                      *)
C8_Witness ==
    /\ AboutToReturn(1)
    /\ CodeOf(Top(1).info) = STATUS_ACCESS_VIOLATION
    /\ CountOf(Top(1).info) = 2
    /\ KindOf(Top(1).info) = U64(0, 0, 0, 1)
    /\ AddressOf(Top(1).info) = Addr_1FFF
    /\ Emitted(Top(1)) = AccessViolationText("Write to", Addr_1000)
    /\ Emitted(Top(1)) = Invocation[WithAddress(Top(1).info, Addr_1234)].errors[1]

(* the texts that carry the zero address *)
ZeroTexts ==
    {"[CRITICAL] Guard Page Violation Detected at 0x0000000000000000 (page-aligned)!"}
    \cup {"[CRITICAL] Access Violation! " \o phrase
             \o " address 0x0000000000000000 (page-aligned)" : phrase \in Phrases}

(* C9: an invocation for a recognized exception with fewer than two        *)
(* parameters reads no entry of ExceptionInformation at an index that is   *)
(* not below NumberParameters, and the address it reports is zero,         *)
(* 0x0000000000000000 in the message, whatever the entries hold.           *)
C9_ShortCountZeroSentinel ==
    EveryInvocation(LAMBDA f :
        CountOf(f.info) < 2 =>
            /\ \A i \in f.infoReads : i < CountOf(f.info)
            /\ f.sanitizedAddress = Zero64
            /\ Emitted(f) \in ZeroTexts)

(* a guard-page fault with one parameter, whose second entry holds         *)
(* 0x00007FF6A0001234, was logged with the zero address                    *)
C9_Witness ==
    /\ AboutToReturn(1)
    /\ CodeOf(Top(1).info) = STATUS_GUARD_PAGE_VIOLATION
    /\ CountOf(Top(1).info) = 1
    /\ AddressOf(Top(1).info) = Addr_1234
    /\ Top(1).infoReads = {}
    /\ Emitted(Top(1)) = GuardPageText(Zero64)

(* the phrase for each access kind *)
PhraseOf(kind) ==
    CASE kind = U64(0, 0, 0, 0) -> "Read from"
      [] kind = U64(0, 0, 0, 1) -> "Write to"
      [] kind = U64(0, 0, 0, 8) -> "DEP violation at"
      [] OTHER -> "Access to"

(* C10: the message of an invocation for an access violation that has a    *)
(* first parameter carries the phrase of that parameter: 0 "Read from",    *)
(* 1 "Write to", 8 "DEP violation at", any other value "Access to".        *)
C10_PhraseOfFirstValue ==
    EveryInvocation(LAMBDA f :
        (CodeOf(f.info) = STATUS_ACCESS_VIOLATION /\ CountOf(f.info) >= 1) =>
            Emitted(f) = AccessViolationText(PhraseOf(KindOf(f.info)),
                                             f.sanitizedAddress))

(* the 16 hex digits of each address a 4 KB mask can give here, written out *)
HexOfReported ==
    {<<Zero64, "0000000000000000">>,
     <<Addr_1000, "00007FF6A0001000">>,
     <<U64(65535, 65535, 65535, 61440), "FFFFFFFFFFFFF000">>}

(* kind, page of the address, and the text of the access violation for them *)
AccessViolationLines ==
    {<<k, r[1], "[CRITICAL] Access Violation! " \o PhraseOf(k) \o " address 0x"
                    \o r[2] \o " (page-aligned)">> :
        k \in AllKinds, r \in HexOfReported}

(* what the output holds of a call, in order, without the line terminator *)
RECURSIVE TextOf(_, _)
TextOf(call, i) ==
    IF i > Len(output) THEN ""
    ELSE (IF output[i].call = call /\ output[i].text # "\n"
          THEN output[i].text ELSE "") \o TextOf(call, i + 1)

AccessViolationWithAddress(info) ==
    /\ CodeOf(info) = STATUS_ACCESS_VIOLATION
    /\ CountOf(info) >= 2

(* C11, as claimed: when an invocation for an access violation with kind   *)
(* and address is about to return, the line of its call in the output is   *)
(* exactly the forensic text, with nothing before it.                      *)
C11_LineIsTheTextAlone ==
    \A t \in Threads :
        (AboutToReturn(t) /\ AccessViolationWithAddress(Top(t).info)) =>
            <<KindOf(Top(t).info),
              ClearLow(AddressOf(Top(t).info), FourKilobytes),
              TextOf(Top(t).call, 1)>> \in AccessViolationLines

(* C11, amended: the message that an invocation for an access violation    *)
(* with kind and address hands to LogError is exactly                      *)
(* "[CRITICAL] Access Violation! <phrase> address 0x<16 uppercase          *)
(* zero-padded hex digits of the sanitized address> (page-aligned)"; the   *)
(* line that reaches the error stream is "[ERROR] " followed by that       *)
(* message and the line terminator, and nothing else.                      *)
C11_ErrorPrefixThenText ==
    /\ EveryInvocation(LAMBDA f :
          AccessViolationWithAddress(f.info) =>
              /\ <<KindOf(f.info), ClearLow(AddressOf(f.info), FourKilobytes),
                   Emitted(f)>> \in AccessViolationLines
              /\ (KindOf(f.info) = U64(0, 0, 0, 1) /\ AddressOf(f.info) = Zero64) =>
                    Emitted(f) = "[CRITICAL] Access Violation! Write to address 0x0000000000000000 (page-aligned)")
    /\ \A t \in Threads :
          (AboutToReturn(t) /\ AccessViolationWithAddress(Top(t).info)) =>
              /\ ErrorLineWritten(Top(t).call)
              /\ TextOf(Top(t).call, 1) = "[ERROR] " \o Emitted(Top(t))
              /\ Cardinality({i \in 1..Len(output) : output[i].call = Top(t).call}) = 3

(* a write fault at address 0 was logged: its line is in the error stream  *)
C11_Witness ==
    /\ AboutToReturn(1)
    /\ CodeOf(Top(1).info) = STATUS_ACCESS_VIOLATION
    /\ CountOf(Top(1).info) = 2
    /\ KindOf(Top(1).info) = U64(0, 0, 0, 1)
    /\ AddressOf(Top(1).info) = Zero64
    /\ output[Len(output) - 1].text =
          "[CRITICAL] Access Violation! Write to address 0x0000000000000000 (page-aligned)"
    /\ output[Len(output) - 2].text = "[ERROR] "

(* page of the address, and the text of the guard-page violation for it *)
GuardPageLines ==
    {<<r[1], "[CRITICAL] " \o "Guard Page Violation Detected at 0x" \o r[2]
                 \o " (page-aligned)!">> : r \in HexOfReported}

(* the descriptor of info with another first parameter *)
WithKind(info, k) ==
    Pointers(Record(CodeOf(info), CountOf(info), k, AddressOf(info)))

GuardPageWithAddress(info) ==
    /\ WellFormed(info)
    /\ CodeOf(info) = STATUS_GUARD_PAGE_VIOLATION
    /\ CountOf(info) >= 2

(* HandlerRoutine on a guard-page descriptor and on those that differ from *)
(* it only in the first parameter: the same LogError call                  *)
FirstParameterFree ==
    {info \in AllInfos :
        GuardPageWithAddress(info) =>
            \A k \in {Zero64, Addr_Ones} :
                Invocation[WithKind(info, k)].errors = Invocation[info].errors}

(* C12: the message of an invocation for a guard-page violation with at    *)
(* least two parameters is "[CRITICAL] " followed by "Guard Page Violation *)
(* Detected at 0x<hex of the second parameter with its low 12 bits         *)
(* cleared> (page-aligned)!", whatever the first parameter holds; for      *)
(* 0x00007FF6A0001234 the address is 0x00007FF6A0001000.                   *)
C12_GuardPageLine ==
    EveryInvocation(LAMBDA f :
        GuardPageWithAddress(f.info) =>
            /\ <<ClearLow(AddressOf(f.info), FourKilobytes), Emitted(f)>>
                  \in GuardPageLines
            /\ f.info \in FirstParameterFree
            /\ Invocation[f.info].errors = <<Emitted(f)>>
            /\ AddressOf(f.info) = Addr_1234 =>
                  Emitted(f) = "[CRITICAL] Guard Page Violation Detected at 0x00007FF6A0001000 (page-aligned)!")

(* a guard-page fault at 0x00007FF6A0001234, its first parameter all ones, *)
(* was logged with 0x00007FF6A0001000                                      *)
C12_Witness ==
    /\ AboutToReturn(1)
    /\ CodeOf(Top(1).info) = STATUS_GUARD_PAGE_VIOLATION
    /\ CountOf(Top(1).info) = 2
    /\ KindOf(Top(1).info) = Addr_Ones
    /\ AddressOf(Top(1).info) = Addr_1234
    /\ Emitted(Top(1)) =
          "[CRITICAL] Guard Page Violation Detected at 0x00007FF6A0001000 (page-aligned)!"

(* the host is dispatching an exception on thread t *)
InDispatch(t) == \E i \in 1..Len(stack[t]) : stack[t][i].fn = "Dispatch"

(* C13: under fair scheduling of the threads, every dispatch of an         *)
(* exception on a thread eventually returns, also when the exception is    *)
(* raised while the thread is inside LogInfo or LogError and owns the      *)
(* mutex.                                                                  *)
C13_DispatchEventuallyReturns ==
    \A t \in Threads : InDispatch(t) ~> ~InDispatch(t)

(* thread t executes Logger::Initialize in this step *)
Initializes(t) == At(t, "Log", "init") /\ stack'[t] # stack[t]

(* thread t is past the lock of a LogInfo or LogError call *)
PastLock(t) == ~Idle(t) /\ Top(t).fn = "Log" /\ Top(t).pc # "lock"

(* C14: whatever the interleaving of the threads' LogInfo and LogError     *)
(* calls, Logger::Initialize runs once: in a step of a thread that owns    *)
(* the mutex, before any other call got past the lock and before anything  *)
(* was written; it fetches both handles and both baselines and sets        *)
(* initialized_, after which no call runs it and its fields never change.  *)
C14_InitializedOnce ==
    [][/\ \A t \in Threads :
             Initializes(t) =>
                 /\ ~initialized_ /\ initialized_'
                 /\ consoleMutex_ = t /\ consoleMutex_' = t
                 /\ output = <<>>
                 /\ \A u \in Threads \ {t} : ~PastLock(u)
                 /\ consoleHandle_' = stdHandles.out
                 /\ errorConsoleHandle_' = stdHandles.err
       /\ initialized_ =>
             /\ initialized_'
             /\ UNCHANGED <<consoleHandle_, errorConsoleHandle_,
                            defaultAttributes_, errorDefaultAttributes_>>
       /\ (\A t \in Threads : ~Initializes(t)) => initialized_' = initialized_
       /\ \A t \in Threads : (PastLock(t)' /\ Top(t)'.pc # "init") => initialized_'
      ]_vars

(* thread 1's call initialized and wrote its line; thread 2's call is past *)
(* the lock and did not initialize                                         *)
C14_Witness ==
    /\ initialized_
    /\ Len(output) = 3
    /\ output[1].call = 1
    /\ logCalls[1].thread = 1
    /\ Idle(1)
    /\ At(2, "Log", "color")
    /\ consoleMutex_ = 2

(* the console shows its baseline attributes *)
ConsoleAtBaseline == consoleAttr = StartAttributes

(* the mutex is owned by the threads that are past the lock of a call, and *)
(* by one thread at most                                                   *)
OwnerIsPastLock ==
    /\ \A t \in Threads : PastLock(t) <=> consoleMutex_ = t
    /\ Cardinality({t \in Threads : PastLock(t)}) <= 1
    /\ MutexFree => ConsoleAtBaseline

(* C15: LogInfo and LogError share one mutex.  At most one thread is       *)
(* between locking and unlocking it; every step that changes the console   *)
(* attributes or inserts into a stream is a step of the thread that owns   *)
(* the mutex before and after it; and the mutex is unlocked only when the  *)
(* console shows its baseline attributes again.                            *)
C15_SerializedBehindOneLock ==
    [][/\ OwnerIsPastLock /\ OwnerIsPastLock'
       /\ (output' # output \/ consoleAttr' # consoleAttr) =>
             \E t \in Threads :
                 /\ consoleMutex_ = t /\ consoleMutex_' = t
                 /\ stack'[t] # stack[t]
                 /\ \A u \in Threads \ {t} : stack'[u] = stack[u]
       /\ (consoleMutex_ # 0 /\ consoleMutex_' = 0) =>
             /\ At(consoleMutex_, "Log", "unlock")
             /\ ConsoleAtBaseline
             /\ Cardinality({i \in 1..Len(output) :
                                output[i].call = Top(consoleMutex_).call}) = 3
      ]_vars

(* thread 1 wrote an error line in red on the console and is about to      *)
(* restore the attributes, while thread 2 waits for the mutex              *)
C15_Witness ==
    /\ At(1, "Log", "restore")
    /\ Top(1).sev = "ERROR"
    /\ consoleAttr = ErrorColor
    /\ consoleMutex_ = 1
    /\ At(2, "Log", "lock")

(* thread t locks the mutex in this step, unlocks it in this step *)
Acquires(t) == consoleMutex_ = 0 /\ consoleMutex_' = t
Releases(t) == consoleMutex_ = t /\ consoleMutex_' = 0

(* C16: the lines are in the output in the order in which their calls      *)
(* locked the mutex.  When a call locks it, the output holds the whole     *)
(* lines of the calls that locked it before, and nothing of this call;     *)
(* until the call unlocks it, the output grows at its end only and by this *)
(* call's insertions only; when it unlocks, its line is the last.  Which   *)
(* of the waiting calls locks the mutex next is not determined.            *)
C16_LinesInLockOrder ==
    [][/\ \A t \in Threads :
             Acquires(t) =>
                 /\ Len(output) % 3 = 0
                 /\ \A i \in 1..Len(output) : output[i].call # Top(t).call
                 /\ output' = output
       /\ output' # output =>
             /\ Len(output') = Len(output) + 1
             /\ SubSeq(output', 1, Len(output)) = output
             /\ consoleMutex_ \in Threads
             /\ output'[Len(output')].call = Top(consoleMutex_).call
       /\ \A t \in Threads :
             Releases(t) =>
                 /\ Len(output) % 3 = 0
                 /\ \A k \in 0..2 : output[Len(output) - k].call = Top(t).call
      ]_vars

(* thread 1 called first and thread 2 second, but thread 2's call locked   *)
(* the mutex first: its line is the first, thread 1's the second           *)
C16_Witness ==
    /\ Len(logCalls) = 2
    /\ logCalls[1].thread = 1
    /\ logCalls[2].thread = 2
    /\ Len(output) = 6
    /\ output[1].call = 2
    /\ output[4].call = 1
    /\ AllIdle

(* thread t calls CrashInterceptor::Initialize in this step *)
CallsInitialize(t) ==
    /\ Idle(t)
    /\ ~Idle(t)'
    /\ stack'[t][1].fn = "Initialize"

(* the whole line of a call is in the stream, as the call's only insertions *)
OneLineWritten(call, stream) ==
    /\ Cardinality({i \in 1..Len(output) : output[i].call = call}) = 3
    /\ \E i \in 1..Len(output) :
          /\ i + 2 <= Len(output)
          /\ \A k \in 0..2 : /\ output[i + k].call = call
                             /\ output[i + k].stream = stream
                             /\ output[i + k].text = LinePiece(call, k)

(* C17: CrashInterceptor::Initialize returns true exactly when the host    *)
(* accepted the handler, which is then one more in the host's list, and    *)
(* false exactly when the host refused, the list being as before.  It      *)
(* makes one logger call, LogError with the failure message when refused   *)
(* and LogInfo with the success message when accepted, whose line is       *)
(* written when it returns.  After a refusal the process goes on: an       *)
(* exception raised with no observer installed is dispatched to nobody.    *)
C17_RegistrationResult ==
    [][/\ \A t \in Threads :
             CallsInitialize(t) =>
                 /\ Len(logCalls') = Len(logCalls) + 1
                 /\ stack'[t][1].call = Len(logCalls')
                 /\ logCalls'[Len(logCalls')].thread = t
                 /\ IF vehList' = vehList
                    THEN /\ stack'[t][1].value = "false"
                         /\ logCalls'[Len(logCalls')].sev = "ERROR"
                         /\ logCalls'[Len(logCalls')].message = FailedMessage
                    ELSE /\ stack'[t][1].value = "true"
                         /\ vehList' = <<"HandlerRoutine">> \o vehList
                         /\ logCalls'[Len(logCalls')].sev = "INFO"
                         /\ logCalls'[Len(logCalls')].message = InitializedMessage
       /\ \A t \in Threads :
             (At(t, "Initialize", "logged") /\ Idle(t)') =>
                 /\ ret'[t].fn = "Initialize"
                 /\ ret'[t].value = Top(t).value
                 /\ logCalls' = logCalls
                 /\ vehList' = vehList
                 /\ IF Top(t).value = "true"
                    THEN OneLineWritten(Top(t).call, "cout")
                    ELSE OneLineWritten(Top(t).call, "cerr")
       /\ \A t \in Threads :
             (WalkOver(t) /\ Top(t).observers = 0) => Top(t).emitted = <<>>
       /\ (\A t \in Threads : ~CallsInitialize(t)) => vehList' = vehList
      ]_vars

(* the host refused a registration, which returned false after one error   *)
(* line; a guard-page fault raised afterwards found no observer            *)
C17_Witness ==
    /\ vehList = <<>>
    /\ Len(logCalls) = 1
    /\ logCalls[1].message = FailedMessage
    /\ Len(output) = 3
    /\ output[1].text = "[ERROR] "
    /\ WalkOver(1)
    /\ Top(1).observers = 0
    /\ Recognized(Top(1).info)

(* a handle that stands for no channel *)
Unavailable(handle) == handle \in {"nullptr", "INVALID_HANDLE_VALUE"}

(* thread t's call has restored the color, if it does, and unlocks next *)
AboutToUnlock(t) == At(t, "Log", "unlock")

(* C18: a LogInfo or LogError call whose handle is null or invalid has,    *)
(* when it comes to unlock the mutex, written its whole line with its      *)
(* prefix once to its stream, called SetConsoleTextAttribute not once and  *)
(* left the console attributes as they were; it then unlocks the mutex and *)
(* returns.  (A call whose handle is not null and valid has called it      *)
(* twice.)                                                                 *)
C18_UnavailableChannelPlainText ==
    [][\A t \in Threads :
          AboutToUnlock(t) =>
              /\ OneLineWritten(Top(t).call, StreamOf(Top(t).sev))
              /\ consoleMutex_ = t
              /\ IF Unavailable(HandleOf(Top(t).sev))
                 THEN /\ Top(t).attributeCalls = 0
                      /\ ConsoleAtBaseline
                 ELSE Top(t).attributeCalls = 2
              /\ stack'[t] # stack[t] =>
                    /\ consoleMutex_' = 0
                    /\ stack'[t] = Below(t)
      ]_vars

(* with an invalid standard output handle, a LogInfo call wrote its line   *)
(* and is about to unlock                                                  *)
C18_Witness ==
    /\ AboutToUnlock(1)
    /\ Top(1).sev = "INFO"
    /\ consoleHandle_ = "INVALID_HANDLE_VALUE"
    /\ Top(1).attributeCalls = 0
    /\ output[Len(output) - 2].text = "[INFO] "
    /\ output[Len(output)].text = "\n"

(* C19, as claimed: no invocation of HandlerRoutine allocates from the     *)
(* heap, neither when it builds its message nor when it hands the message  *)
(* to LogError.                                                            *)
C19_NoHeapAllocation == EveryInvocation(LAMBDA f : f.heapAllocations = 0)

(* the invocation's sprintf_s call failed *)
FormatFailed(f) == f.result <= 0

(* C20: an invocation of HandlerRoutine whose sprintf_s call returns a     *)
(* result that is not positive makes one LogError call, with the fixed     *)
(* message of the exception's kind, in which there is no address and       *)
(* nothing of the buffer; it returns EXCEPTION_CONTINUE_SEARCH, and the    *)
(* whole line is in the error stream before it returns.                    *)
C20_FallbackOnFormatFailure ==
    /\ EveryInvocation(LAMBDA f :
          FormatFailed(f) =>
              /\ Emitted(f) =
                    IF CodeOf(f.info) = STATUS_GUARD_PAGE_VIOLATION
                    THEN "[CRITICAL] Guard Page Violation Detected (formatting error)!"
                    ELSE "[CRITICAL] Access Violation (formatting error)!"
              /\ f.value = EXCEPTION_CONTINUE_SEARCH)
    /\ \A t \in Threads :
          (AboutToReturn(t) /\ FormatFailed(Top(t))) =>
              ErrorLineWritten(Top(t).call)
    /\ \A t \in Threads :
          (WalkOver(t) /\ Recognized(Top(t).info)) =>
              Len(Top(t).emitted) = Top(t).observers

(* sprintf_s failed in the invocation for an access violation, and left    *)
(* text in the buffer; the invocation is about to return                   *)
C20_Witness ==
    /\ AboutToReturn(1)
    /\ FormatFailed(Top(1))
    /\ CodeOf(Top(1).info) = STATUS_ACCESS_VIOLATION
    /\ Emitted(Top(1)) = "[CRITICAL] Access Violation (formatting error)!"
    /\ ErrorLineWritten(Top(1).call)

(* the call has returned: no thread has its frame on its stack *)
Returned(call) ==
    \A t \in Threads : \A i \in 1..Len(stack[t]) :
        ~(stack[t][i].fn = "Log" /\ stack[t][i].call = call)

(* the positions of the output that hold insertions of the call *)
InsertionsOf(call) == {i \in 1..Len(output) : output[i].call = call}

(* the call's insertions are three in a row: tag, text, line terminator *)
IsLine(call, tag, text) ==
    /\ Cardinality(InsertionsOf(call)) = 3
    /\ \E i \in InsertionsOf(call) :
          /\ InsertionsOf(call) = {i, i + 1, i + 2}
          /\ output[i].text = tag
          /\ output[i + 1].text = text
          /\ output[i + 2].text = "\n"

(* C21: when a LogInfo(text) call has returned, its insertions are the one *)
(* line "[INFO] " text on standard output, and when a LogError(text) call  *)
(* has returned, the one line "[ERROR] " text on standard error; no call   *)
(* ever inserts into the other stream.                                     *)
C21_OneLineInItsStream ==
    \A c \in 1..Len(logCalls) :
        /\ \A i \in InsertionsOf(c) :
              output[i].stream = IF logCalls[c].sev = "INFO" THEN "cout" ELSE "cerr"
        /\ Returned(c) =>
              IsLine(c, IF logCalls[c].sev = "INFO" THEN "[INFO] " ELSE "[ERROR] ",
                     logCalls[c].message)

(* a LogInfo call and a LogError call have both returned *)
C21_Witness ==
    /\ Len(logCalls) = 2
    /\ logCalls[1].sev = "ERROR" /\ logCalls[2].sev = "INFO"
    /\ Returned(1) /\ Returned(2)
    /\ \E i \in InsertionsOf(1) : output[i].stream = "cerr"
    /\ \E i \in InsertionsOf(2) : output[i].stream = "cout"

(* the invocations of HandlerRoutine in progress, on all threads *)
InvocationsInProgress ==
    UNION {{stack[t][i] : i \in {j \in 1..Len(stack[t]) :
                                    stack[t][j].fn = "HandlerRoutine"}} :
           t \in Threads}

(* thread t takes a step of HandlerRoutine itself: its call or its return *)
InvocationStep(t) ==
    /\ stack'[t] # stack[t]
    /\ \/ At(t, "Dispatch", "walk") /\ Top(t).todo > 0
       \/ At(t, "HandlerRoutine", "logged")

(* C22: while threads dispatch concurrently, the message of every          *)
(* invocation of HandlerRoutine is the one its own record gives when       *)
(* dispatched alone (two invocations for equal records emit equal          *)
(* messages, whatever the other thread does); every dispatch that is over  *)
(* has put exactly its own whole line into the error stream, so that the   *)
(* lines of concurrent dispatches are those of the same dispatches in a    *)
(* row; and the steps of HandlerRoutine itself change no state that is     *)
(* shared between threads.                                                 *)
C22_DispatchReentrant ==
    /\ [](\A f \in InvocationsInProgress :
            /\ \A g \in InvocationsInProgress :
                  RecordOf(f.info) = RecordOf(g.info) => Emitted(f) = Emitted(g)
            /\ CodeOf(f.info) = STATUS_GUARD_PAGE_VIOLATION =>
                  Emitted(f) = "[CRITICAL] Guard Page Violation Detected at 0x00007FF6A0001000 (page-aligned)!"
            /\ CodeOf(f.info) = STATUS_ACCESS_VIOLATION =>
                  Emitted(f) = "[CRITICAL] Access Violation! Write to address 0x00007FF6A0001000 (page-aligned)")
    /\ [](\A t \in Threads :
            WalkOver(t) =>
                IF Recognized(Top(t).info)
                THEN /\ Len(Top(t).emitted) = 1
                     /\ logCalls[Top(t).emitted[1]].thread = t
                     /\ IsLine(Top(t).emitted[1], "[ERROR] ",
                               Invocation[Top(t).info].errors[1])
                ELSE Top(t).emitted = <<>>)
    /\ [][\A t \in Threads :
            InvocationStep(t) =>
                UNCHANGED <<vehList, loggerVars, hostVars, streamVars>>]_vars

(* two threads are inside HandlerRoutine at once, for different records:   *)
(* one writes its line, the other waits for the lock                       *)
C22_Witness ==
    /\ Len(stack[1]) = 3 /\ Len(stack[2]) = 3
    /\ stack[1][2].fn = "HandlerRoutine" /\ stack[2][2].fn = "HandlerRoutine"
    /\ CodeOf(stack[1][2].info) # CodeOf(stack[2][2].info)
    /\ Top(1).pc = "message" /\ Top(2).pc = "lock"

(* thread t's LogInfo or LogError call takes its step at pc *)
LogStepAt(t, pc) == At(t, "Log", pc) /\ stack'[t] # stack[t]

(* what the host returned for the call's own stream, its recorded baseline *)
(* and its color                                                           *)
OwnHandle(sev) == IF sev = "INFO" THEN stdHandles.out ELSE stdHandles.err
OwnBaseline(sev) ==
    IF sev = "INFO" THEN defaultAttributes_ ELSE errorDefaultAttributes_
OwnColor(sev) ==
    IF sev = "INFO" THEN {"FOREGROUND_GREEN", "FOREGROUND_INTENSITY"}
    ELSE {"FOREGROUND_RED", "FOREGROUND_INTENSITY"}

LoggingColors == {{"FOREGROUND_GREEN", "FOREGROUND_INTENSITY"},
                  {"FOREGROUND_RED", "FOREGROUND_INTENSITY"}}

(* C24: when a LogInfo or LogError call is about to release the lock and   *)
(* return, the console it wrote to has the baseline recorded for its       *)
(* channel; and whenever no thread holds the lock, the console has the     *)
(* attributes it started with, which are the baseline of every channel     *)
(* that is a console, and so is in neither logging color.                  *)
C24_ColorRestored ==
    /\ \A t \in Threads :
          (At(t, "Log", "unlock") /\ OwnHandle(Top(t).sev) = "CONOUT$") =>
              consoleAttr = OwnBaseline(Top(t).sev)
    /\ consoleMutex_ = 0 =>
          /\ consoleAttr = StartAttributes
          /\ consoleAttr \notin LoggingColors
          /\ initialized_ =>
                \A sev \in {"INFO", "ERROR"} :
                    OwnHandle(sev) = "CONOUT$" => OwnBaseline(sev) = consoleAttr

(* a LogError call that wrote to the console in red has returned, and a    *)
(* LogInfo call after it: no thread holds the lock                         *)
C24_Witness ==
    /\ stdHandles.err = "CONOUT$" /\ stdHandles.out = "CONOUT$"
    /\ Len(logCalls) = 2
    /\ logCalls[1].sev = "ERROR" /\ logCalls[2].sev = "INFO"
    /\ Returned(1) /\ Returned(2)
    /\ consoleMutex_ = 0
    /\ consoleAttr = StartAttributes

(* C25, as claimed: an invocation for an access violation with exactly one *)
(* parameter reads that parameter and no other, and its message has the    *)
(* phrase of that parameter (0 "Read from", 1 "Write to", 8 "DEP violation *)
(* at", others "Access to") with the address zero.                         *)
C25_KindWithOneParameter ==
    EveryInvocation(LAMBDA f :
        (CodeOf(f.info) = STATUS_ACCESS_VIOLATION /\ CountOf(f.info) = 1) =>
            /\ f.infoReads = {0}
            /\ f.sanitizedAddress = Zero64
            /\ <<KindOf(f.info), Zero64, Emitted(f)>> \in AccessViolationLines)

(* each address 4 KB sanitizing can give for SanitizeAddresses, with the    *)
(* texts of the two branches that carry it                                 *)
SanitizeReports ==
    {<<r, GuardPageText(r)>> : r \in {ClearLow(a, FourKilobytes) : a \in SanitizeAddresses}}
    \cup {<<r, AccessViolationText("Write to", r)>> :
            r \in {ClearLow(a, FourKilobytes) : a \in SanitizeAddresses}}

(* C26: for a faulting address a, the invocation of either branch reports  *)
(* a - (a mod 4096), with all 64 bits of a above the low 12 kept: it is at  *)
(* most a, a multiple of 4096, less than 4096 below a, equal to a when a   *)
(* is already a multiple of 4096, and sanitizing it again gives it again;  *)
(* the message carries it.                                                 *)
C26_SanitizedAddress ==
    EveryInvocation(LAMBDA f :
        LET a == AddressOf(f.info)
            r == f.sanitizedAddress
        IN  /\ r = <<a[1], a[2], a[3], a[4] - (a[4] % 4096)>>
            /\ Leq64(r, a)
            /\ r[4] % 4096 = 0
            /\ a[4] - r[4] < 4096
            /\ a[4] % 4096 = 0 => r = a
            /\ SanitizeAddress(r) = r
            /\ <<r, Emitted(f)>> \in SanitizeReports)

(* an access violation at 0xFFFF7FF6FFFFFFFF was reported with the address *)
(* 0xFFFF7FF6FFFFF000                                                      *)
C26_Witness ==
    /\ AboutToReturn(1)
    /\ CodeOf(Top(1).info) = STATUS_ACCESS_VIOLATION
    /\ AddressOf(Top(1).info) = U64(65535, 32758, 65535, 65535)
    /\ Top(1).sanitizedAddress = U64(65535, 32758, 65535, 61440)
    /\ Emitted(Top(1)) =
          "[CRITICAL] Access Violation! Write to address 0xFFFF7FF6FFFFF000 (page-aligned)"

(* thread t is in the dispatch of an exception that HandlerRoutine does    *)
(* not recognize: a null descriptor or record, or another code             *)
InUnrecognizedDispatch(t) ==
    /\ ~Idle(t)
    /\ stack[t][1].fn = "Dispatch"
    /\ ~Recognized(stack[t][1].info)

(* C27: the dispatch of an exception with a null descriptor, a null record *)
(* or an unrecognized code makes no logger call and takes no step that     *)
(* touches the mutex: the thread never owns it and never is in a LogError  *)
(* call; and while another thread holds the mutex and never releases it,   *)
(* the dispatch still returns, with EXCEPTION_CONTINUE_SEARCH.             *)
C27_UnrecognizedNeverWaits ==
    /\ [](\A t \in Threads :
            InUnrecognizedDispatch(t) =>
                /\ Len(stack[t]) = 1
                /\ consoleMutex_ # t
                /\ Top(t).emitted = <<>>
                /\ Top(t).disposition = "EXCEPTION_CONTINUE_SEARCH")
    /\ [][\A t \in Threads :
            (InUnrecognizedDispatch(t) /\ stack'[t] # stack[t]) =>
                UNCHANGED <<loggerVars, hostVars, streamVars, logCalls>>]_vars
    /\ (InUnrecognizedDispatch(2) ~>
            (Idle(2) /\ ret[2].fn = "Dispatch" /\ ret[2].logs = 0
                /\ ret[2].value = "EXCEPTION_CONTINUE_SEARCH"))

(* thread 1 is inside a LogInfo call with the mutex locked, and thread 2's *)
(* dispatch of a breakpoint exception is over                              *)
C27_Witness ==
    /\ consoleMutex_ = 1
    /\ At(1, "Log", "message")
    /\ WalkOver(2)
    /\ InUnrecognizedDispatch(2)
    /\ WellFormed(Top(2).info)
    /\ CodeOf(Top(2).info) = STATUS_BREAKPOINT
    /\ Top(2).observers = 1

(* thread t is executing inside LogInfo or LogError *)
InLog(t) == \E i \in 1..Len(stack[t]) : stack[t][i].fn = "Log"

(* C28: the mutex is owned only by a thread that is inside LogInfo or      *)
(* LogError past its lock, so it is free whenever no thread is inside a    *)
(* call, and it is free again when a call has returned; and with a finite  *)
(* number of calls by each thread, under fair scheduling, every call       *)
(* returns: whenever a thread is inside a call, a state follows in which   *)
(* all threads have returned and the mutex is free, so that no thread      *)
(* waits for the mutex for ever.                                           *)
C28_LockReleasedCallsReturn ==
    /\ []((\A t \in Threads : ~InLog(t)) => consoleMutex_ = 0)
    /\ [](\A t \in Threads :
            consoleMutex_ = t <=> (InLog(t) /\ Top(t).pc # "lock"))
    /\ (\E t \in Threads : InLog(t)) ~>
          (\A t \in Threads : Idle(t) /\ consoleMutex_ = 0)

(* thread 2 waits for the mutex that thread 1 holds, after a call of       *)
(* thread 1 has returned                                                   *)
C28_Witness ==
    /\ Len(logCalls) = 3
    /\ Returned(1)
    /\ consoleMutex_ = 1
    /\ InLog(1)
    /\ At(2, "Log", "lock")

(* C29: the dispatch of an exception leaves the descriptor as the host     *)
(* made it, the exception record with its code, count and parameters and   *)
(* the context record, and HandlerRoutine sees that descriptor; no step of *)
(* the dispatching thread changes the list of installed observers; the     *)
(* call and the return of HandlerRoutine change nothing of the logger, the *)
(* console and the output, and when an invocation returns, what it has     *)
(* caused is the one line of its one LogError call (none if it made no     *)
(* call), the logger being initialized.                                    *)
C29_PureObserver ==
    [][\A t \in Threads :
          /\ (InDispatch(t) /\ InDispatch(t)') =>
                /\ stack'[t][1].info = stack[t][1].info
                /\ \A i \in 1..Len(stack'[t]) :
                      stack'[t][i].fn = "HandlerRoutine" =>
                          stack'[t][i].info = stack[t][1].info
          /\ (InDispatch(t) /\ stack'[t] # stack[t]) => vehList' = vehList
          /\ InvocationStep(t) =>
                /\ UNCHANGED <<loggerVars, hostVars, streamVars>>
                /\ Len(logCalls') <= Len(logCalls) + 1
          /\ (At(t, "HandlerRoutine", "logged") /\ stack'[t] # stack[t]) =>
                /\ IsLine(Top(t).call, "[ERROR] ", logCalls[Top(t).call].message)
                /\ initialized_]_vars

(* thread 2's invocation for a guard-page violation is about to return;    *)
(* its LogError call was the first to lock the mutex and initialized the   *)
(* logger, while the LogInfo call of thread 1's Initialize waits           *)
C29_Witness ==
    /\ At(2, "HandlerRoutine", "logged")
    /\ CodeOf(Top(2).info) = STATUS_GUARD_PAGE_VIOLATION
    /\ Top(2).info[1].ContextRecord = <<"CONTEXT">>
    /\ Len(output) = 3
    /\ output[1].call = Top(2).call
    /\ At(1, "Log", "lock")
    /\ vehList = <<"HandlerRoutine">>

(* the tag of a call's line *)
TagOf(call) == IF logCalls[call].sev = "INFO" THEN "[INFO] " ELSE "[ERROR] "

(* C30: the output only grows; when a call is invoked, the line of every   *)
(* call that has returned is whole in the output, so that the line of a    *)
(* call that returned before another was invoked, on any thread, comes     *)
(* before that other call's line; and the lines of one thread's calls are  *)
(* in the order in which the thread made them.                             *)
C30_RealTimeOrder ==
    /\ [][/\ Len(output') >= Len(output)
          /\ SubSeq(output', 1, Len(output)) = output
          /\ Len(logCalls') > Len(logCalls) =>
                \A c \in 1..Len(logCalls) :
                    Returned(c) =>
                        /\ IsLine(c, TagOf(c), logCalls[c].message)
                        /\ \A i \in InsertionsOf(c) : i <= Len(output)]_vars
    /\ [](\A c \in 1..Len(logCalls) : \A d \in 1..Len(logCalls) :
            (c < d /\ logCalls[c].thread = logCalls[d].thread) =>
                \A i \in InsertionsOf(c) : \A j \in InsertionsOf(d) : i < j)

(* thread 1 has made two LogInfo calls, one after the other, and thread 2  *)
(* is writing the line of a LogInfo call that it made after them           *)
C30_Witness ==
    /\ Len(logCalls) = 3
    /\ \A c \in 1..3 : logCalls[c].sev = "INFO"
    /\ logCalls[1].thread = 1 /\ logCalls[2].thread = 1 /\ logCalls[3].thread = 2
    /\ Returned(1) /\ Returned(2)
    /\ At(2, "Log", "endl")
    /\ InsertionsOf(1) = {1, 2, 3}
    /\ InsertionsOf(2) = {4, 5, 6}
    /\ InsertionsOf(3) = {7, 8}

(* the value of an uppercase hexadecimal digit, 16 for any other character *)
UpperHexValue(c) ==
    CASE c = "0" -> 0 [] c = "1" -> 1 [] c = "2" -> 2 [] c = "3" -> 3
      [] c = "4" -> 4 [] c = "5" -> 5 [] c = "6" -> 6 [] c = "7" -> 7
      [] c = "8" -> 8 [] c = "9" -> 9 [] c = "A" -> 10 [] c = "B" -> 11
      [] c = "C" -> 12 [] c = "D" -> 13 [] c = "E" -> 14 [] c = "F" -> 15
      [] OTHER -> 16

(* the 16-bit value that four uppercase hexadecimal digits denote *)
LimbOf(field) ==
    UpperHexValue(SubSeq(field, 1, 1)) * 4096 + UpperHexValue(SubSeq(field, 2, 2)) * 256
        + UpperHexValue(SubSeq(field, 3, 3)) * 16 + UpperHexValue(SubSeq(field, 4, 4))

(* text is head, then exactly 16 uppercase hexadecimal digits that denote  *)
(* the 64-bit value r, then tail, and fits a buffer of 256 bytes with its  *)
(* terminator                                                              *)
HexFieldBetween(text, head, r, tail) ==
    /\ Len(text) = Len(head) + 16 + Len(tail)
    /\ Len(text) < 256
    /\ SubSeq(text, 1, Len(head)) = head
    /\ SubSeq(text, Len(head) + 17, Len(text)) = tail
    /\ \A k \in 1..16 :
          UpperHexValue(SubSeq(text, Len(head) + k, Len(head) + k)) < 16
    /\ \A i \in 1..4 :
          LimbOf(SubSeq(text, Len(head) + 4 * i - 3, Len(head) + 4 * i)) = r[i]

(* the reports of the invocations for the recognized descriptors raised,   *)
(* address and text, that are well formed                                  *)
WellFormedReports ==
    {rep \in {<<Invocation[info].sanitizedAddress, Invocation[info].errors[1]>> :
                info \in {i \in AllInfos \cup SanitizeInfos : Recognized(i)}} :
        \/ HexFieldBetween(rep[2], "[CRITICAL] Guard Page Violation Detected at 0x",
                           rep[1], " (page-aligned)!")
        \/ \E phrase \in {"Read from", "Write to", "DEP violation at", "Access to"} :
              HexFieldBetween(rep[2],
                              "[CRITICAL] Access Violation! " \o phrase \o " address 0x",
                              rep[1], " (page-aligned)")}

(* C31: in the message of every invocation for a recognized exception the  *)
(* address field is exactly 16 uppercase hexadecimal digits, zero-padded,  *)
(* that denote the sanitized address, between the fixed texts of the       *)
(* branch; the whole message is shorter than the 256 bytes of the buffer,  *)
(* and sprintf_s returned its length: nothing was truncated.               *)
C31_SixteenDigitsAndFits ==
    EveryInvocation(LAMBDA f :
        /\ <<f.sanitizedAddress, Emitted(f)>> \in WellFormedReports
        /\ f.result = Len(Emitted(f))
        /\ f.result > 0
        /\ f.result < 256)

(* a DEP violation at 0xFFFFFFFFFFFFFFFF was reported: the longest message, *)
(* 87 characters, with no zero to pad                                      *)
C31_Witness ==
    /\ AboutToReturn(1)
    /\ CodeOf(Top(1).info) = STATUS_ACCESS_VIOLATION
    /\ CountOf(Top(1).info) = 2
    /\ KindOf(Top(1).info) = U64(0, 0, 0, 8)
    /\ AddressOf(Top(1).info) = Addr_Ones
    /\ Top(1).result = 87
    /\ Emitted(Top(1)) =
          "[CRITICAL] Access Violation! DEP violation at address 0xFFFFFFFFFFFFF000 (page-aligned)"

(* the logger's cached state: the two handles and the two baselines *)
Cached ==
    <<consoleHandle_, errorConsoleHandle_, defaultAttributes_, errorDefaultAttributes_>>

(* C32: initialized_ goes from false to true and never back; until then    *)
(* the cached handles and baselines have their static initial values, and  *)
(* from then on no step of any LogInfo or LogError call, in any            *)
(* interleaving, changes them, also when the standard handles of the       *)
(* process are no longer those that were cached.                           *)
C32_WriteOnce ==
    /\ [](~initialized_ => Cached = <<"nullptr", "nullptr", {}, {}>>)
    /\ [][/\ initialized_ => (initialized_' /\ Cached' = Cached)
          /\ Cached' # Cached => (~initialized_ /\ initialized_')]_vars

(* the first call has returned, the standard output of the process has     *)
(* been redirected since the logger cached it, and a second call is past   *)
(* its lock                                                                *)
C32_Witness ==
    /\ initialized_
    /\ Len(logCalls) = 2
    /\ Returned(1)
    /\ consoleHandle_ = "CONOUT$"
    /\ stdHandles.out # "CONOUT$"
    /\ \E t \in Threads : At(t, "Log", "prefix") /\ Top(t).call = 2

(* the points of LogInfo and LogError that read or write initialized_, the *)
(* cached handles or the baselines: the test of initialized_ and           *)
(* Initialize, the test of the handle before coloring, the test of the     *)
(* handle and the baseline when restoring                                  *)
AccessPcs == {"init", "color", "restore"}

(* thread t is at a point that accesses the logger's shared state *)
Accessing(t) == ~Idle(t) /\ Top(t).fn = "Log" /\ Top(t).pc \in AccessPcs

(* C33: a thread that is at a point of LogInfo or LogError that reads or   *)
(* writes initialized_, the cached handles or the baselines owns the       *)
(* mutex, so at most one thread is at such a point; Initialize is entered  *)
(* by the owner of the mutex only; and every step that changes that state  *)
(* is a step of the owner, which owns the mutex after the step as well.    *)
C33_AccessUnderLock ==
    /\ [](\A t \in Threads : Accessing(t) => consoleMutex_ = t)
    /\ [](Cardinality({t \in Threads : Accessing(t)}) <= 1)
    /\ [][/\ \A t \in Threads :
               (At(t, "Log", "init")' /\ ~At(t, "Log", "init")) =>
                   /\ consoleMutex_' = t
                   /\ At(t, "Log", "lock")
          /\ (Cached' # Cached \/ initialized_' # initialized_) =>
                \E t \in Threads :
                    /\ consoleMutex_ = t /\ consoleMutex_' = t
                    /\ Accessing(t)
                    /\ stack'[t] # stack[t]]_vars

(* thread 1 is in Initialize and owns the mutex; thread 2's call waits at  *)
(* its lock and has not read initialized_                                  *)
C33_Witness ==
    /\ ~initialized_
    /\ At(1, "Log", "init")
    /\ consoleMutex_ = 1
    /\ At(2, "Log", "lock")

============================================================================
